---- MODULE Spec2Model ----
(***************************************************************************)
(* t.sentinel: the orchestrators t.sentinel.mask and t.sentinel.import,    *)
(* their workers i.sentinel.mask.worker and i.sentinel.import.worker, and  *)
(* the pygrass ParallelModuleQueue they dispatch through.                  *)
(*                                                                         *)
(* Names of maps and mapsets are modelled as tuples <<tag, key>>:          *)
(*   <<"clouds", s>>          "%s_clouds" % name of scene s                *)
(*   <<"shadows", s>>         "%s_shadows" % name of scene s               *)
(*   <<"clouds_patched", d>>  'clouds_patched_{}'.format(strftime(%Y%m%d)) *)
(*   <<"S2_import", i>>       'S2_import_%s' % str(i)                      *)
(*   <<"B04", c>>             a band raster of the scene c                 *)
(*   <<"rCLOUDS", c>>         a raster of scene c with CLOUDS in its name  *)
(*   <<"vCLOUDS", c>>         the cloud mask vector of scene c             *)
(* A date is <<day, time>>: strftime('%Y%m%d') keeps only the day.         *)
(*                                                                         *)
(* An option that main() reads only after the pool has drained carries the *)
(* value Unread until the statement that reads it first; the value is      *)
(* drawn there and kept, which is the same as drawing it at start-up.      *)
(***************************************************************************)
EXTENDS Integers, Sequences, FiniteSets, TLC

VARIABLES
    pipeline,          \* "mask" (t.sentinel.mask) or "import" (t.sentinel.import)
    opt,               \* options and flags of the run
    nscenes,           \* len(s2_scenes) / len(os.listdir(download_dir))
    entries,           \* import: directory entry -> [kind, scene]
    s2_scenes,         \* mask: scene -> [date, pct, clouds, shadows]
    dates_todo,        \* mask: entries of dates_scenes the patch loop has not visited
    cloudfree,         \* mask: the masks the message "No clouds/shadows larger
                       \* than ... detected" was given for
    nprocs_final,      \* import: min(number_of_scenes, nprocs)
    budget,            \* import: options['memory'], what the host has, the
                       \* warnings of test_nprocs_memory and memory_per_proc
    mapsetids,         \* import: mapset ids collected by the dispatch loop
    maplist,           \* import: names of the copied band rasters
    cloudlist,         \* import: names of the copied cloud maps
    pc,                \* position of the orchestrator's main()
    idx,               \* counter of the orchestrator's current loop
    start_cur_mapset,  \* MAPSET recorded before dispatch
    shared,            \* map name -> content, the maps of the orchestrator's mapset
    regfile,           \* dataset -> lines of the register file given to t.register
    proc_list,         \* ParallelModuleQueue._list: units started and not yet waited for
    wstate,            \* unit -> state of its worker process
    step,              \* unit -> exit status of the external step the worker ran
    wname,             \* unit -> the mapset name handed to its worker
    wmapset,           \* mapset name -> what the mapset directory holds
    gisrc_mapset,      \* MAPSET of the orchestrator's session (GISRC) file
    wgisrc,            \* unit -> the private session file of its worker exists
    wpid,              \* unit -> os.getpid() of its worker, 0 before it has run
    pid_reuse,         \* the system hands out process ids of ended processes again
    rm_rasters,        \* the global list rm_rasters, as the set of its names
    rm_regions,        \* the global list rm_regions, as the set of its names
    regions,           \* the saved regions of the orchestrator's mapset
    cell_misc,         \* rasters with a description.json under cell_misc of the
                       \* orchestrator's mapset, written during this run
    error,             \* what ended main() early, "none" otherwise
    pinput,            \* the parts the map name given to the register loop is made of
    pline,             \* the line the register loop wrote for that name
    pattern,           \* the parts options['pattern'] is made of
    subsets,           \* the band tokens t.rast.extract was run for, in order
    rasters,           \* mask: scene of the input dataset -> [date, bands], what
                       \* t.rast.list and r.info tell about its rasters
    layers             \* import: the names, letter by letter, of the rasters of
                       \* one scene in the mapset of its worker

cfgVars == <<pipeline, nscenes, entries, pinput, pline, pattern, subsets, rasters,
             pid_reuse, layers>>
maskVars == <<s2_scenes, dates_todo, cloudfree>>
importVars == <<nprocs_final, budget, mapsetids, maplist, cloudlist>>
mainVars == <<pc, idx, start_cur_mapset, shared, regfile>>
workerVars == <<wstate, step, wname, wmapset, wgisrc, wpid>>
exitVars == <<rm_rasters, rm_regions, regions>>

vars == <<cfgVars, opt, maskVars, importVars, mainVars, proc_list, workerVars,
          gisrc_mapset, cell_misc, error, exitVars>>

(***************************************************************************)
(* Bounds of the model and the value sets the inputs are drawn from.       *)
(***************************************************************************)
MaxScenes == 2
MaxProcs == 2

Units == 1..MaxScenes
Dates == {<<1, 1>>, <<1, 2>>, <<2, 1>>}
\* CLOUDY_PIXEL_PERCENTAGE values and thresholds: values below, at and above
\* a threshold; threshold 0 is the default, "disabled"
Pcts == {10, 50}
Thresholds == {0, 30, 50}
\* min_size_clouds / min_size_shadows: 0 stands for "not given"
MinSizes == {0, 5}
Mapsets == {"PERMANENT", "other"}
EntryKinds == {"scene", "other"}

Unread == -1
\* mp.cpu_count() or the free memory cannot be determined
Unavailable == -2
\* the answer of G_OPT_MEMORYMB
DefaultMemory == 300
Memories == {5, DefaultMemory, 10000}
FreeRams == {Unavailable, 7, 4000}
CpuCounts == {Unavailable} \cup 1..MaxProcs
NoName == <<"none", 0>>
\* a mapset directory that does not exist holds nothing; g.mapset -c creates
\* the directory with its region file WIND
NoMapset == {}
NewMapset == {<<"WIND", 0>>}

(***************************************************************************)
(* Helpers on names, maps and the shared mapset.                           *)
(***************************************************************************)
Min(a, b) == IF a < b THEN a ELSE b

Range(seq) == {seq[i] : i \in 1..Len(seq)}

Read(v, S) == IF v = Unread THEN S ELSE {v}

DateLE(a, b) == a[1] < b[1] \/ (a[1] = b[1] /\ a[2] <= b[2])

\* "%s_clouds" % name, "%s_shadows" % name
MapName(kind, s) == <<kind, s>>

\* 'clouds_patched_{}'.format(date.strftime('%Y%m%d')): the time of day is dropped
PatchName(kind, date) ==
    <<IF kind = "clouds" THEN "clouds_patched" ELSE "shadows_patched", date[1]>>

\* faulty variant: the loop index is left out of the mapset id
MapsetIdNoIndex(i) == <<"S2_import", 1>>

\* mapsetid = 'S2_import_%s' % (str(idx+1)), idx counted from 0
MapsetId(i) == <<"S2_import", i>>

\* "%s_double" % s2_scene[band], the seven of scene s under one name
DoubleName(s) == <<"double", s>>

\* currentregion = 'tmp_region_' + str(os.getpid())
TmpRegion == "tmp_region"

\* newmapset = s2_scene['clouds']
NewMapsetName(s) == MapName("clouds", s)

MapsetNames == {NewMapsetName(s) : s \in Units} \cup {MapsetId(i) : i \in Units}

Kinds == IF opt.output_shadows THEN {"clouds", "shadows"} ELSE {"clouds"}

Exists(n) == n \in DOMAIN shared

PutMaps(f, g) ==
    [n \in DOMAIN f \cup DOMAIN g |-> IF n \in DOMAIN g THEN g[n] ELSE f[n]]

\* worker processes that have been started and have not ended
Active == {u \in Units : wstate[u] \in {"spawned", "setup"}}

Dispatched == {u \in Units : wstate[u] # "idle"}

(***************************************************************************)
(* grass.pygrass.modules.ParallelModuleQueue as the orchestrators use it:  *)
(* put() starts the module at once and, when nprocs modules have been      *)
(* started since the last wait, waits for all of them; wait() waits for    *)
(* the started modules in the order they were put and raises               *)
(* CalledModuleError at the first one that ended with a non-zero status.   *)
(***************************************************************************)
\* faulty variant: the queue is sized by the number of units
QueueNprocsPerUnit == nscenes

\* ParallelModuleQueue(nprocs=options['nprocs']) / (nprocs=nprocs_final)
QueueNprocs == IF pipeline = "mask" THEN opt.nprocs ELSE nprocs_final

\* if self._proc_count == self._num_procs: self.wait()
QueueFull(list, nprocs) == Len(list) = nprocs

\* faulty variant: wait() returns whatever the exit status of the modules
WaitReturnsAnyExit(list) ==
    \A i \in 1..Len(list) : wstate[list[i]] \in {"ok", "failed"}

\* every started module has ended with status 0: wait() returns
WaitReturns(list) == \A i \in 1..Len(list) : wstate[list[i]] = "ok"

\* wait() reaches a module that ended with a non-zero status
WaitRaises(list) ==
    \E j \in 1..Len(list) :
        /\ wstate[list[j]] = "failed"
        /\ \A i \in 1..(j - 1) : wstate[list[i]] = "ok"

QueueWaitReturn ==
    /\ pc \in {"put_wait", "wait"}
    /\ WaitReturns(proc_list)
    /\ proc_list' = <<>>
    /\ pc' = IF pc = "put_wait" THEN "dispatch" ELSE "after_wait"
    /\ UNCHANGED <<idx, start_cur_mapset, shared, regfile>>
    /\ UNCHANGED <<cfgVars, exitVars, error, cell_misc, opt, maskVars, importVars, workerVars, gisrc_mapset>>

QueueWaitRaise ==
    /\ pc \in {"put_wait", "wait"}
    /\ WaitRaises(proc_list)
    /\ pc' = "crashed"
    /\ error' = "CalledModuleError"
    /\ UNCHANGED <<idx, start_cur_mapset, shared, regfile>>
    /\ UNCHANGED <<cfgVars, exitVars, cell_misc, opt, maskVars, importVars, proc_list, workerVars,
                   gisrc_mapset>>

(***************************************************************************)
(* The workers.  Each is a process of its own; it removes a mapset of its  *)
(* name left by an earlier run, switches to the new mapset through a       *)
(* private copy of the session file, runs the external step and exits.     *)
(***************************************************************************)
\* faulty variant: a process can get the id of a process that still runs
PidChoicesAnyPid(u) ==
    {u} \cup {wpid[d] : d \in {v \in Units : wpid[v] # 0}}

\* os.getpid() of the worker of unit u.  Process ids are named after the
\* unit that had them first: the id is one no process has had (u), or the
\* id of a worker that has ended; never the id of a process that runs
PidChoices(u) ==
    IF pid_reuse
      THEN ({u} \cup {wpid[d] : d \in {v \in Units : wstate[v] \in {"ok", "failed"}}})
             \ {wpid[v] : v \in {w \in Units : wstate[w] = "setup"}}
      ELSE {u}

\* faulty variant: the directory of an earlier run stays
TryRmdirKeep(dir) == dir

\* grass.utils.try_rmdir: os.rmdir, and shutil.rmtree when that fails
TryRmdir(dir) == NoMapset

\* g.mapset -c: makes the mapset when there is none, and enters it
GMapsetCreate(dir) == dir \cup NewMapset

WorkerSetup(u) ==
    /\ wstate[u] = "spawned"
    /\ wstate' = [wstate EXCEPT ![u] = "setup"]
    /\ wmapset' = [wmapset EXCEPT ![wname[u]] = GMapsetCreate(TryRmdir(@))]
    /\ \E pid \in PidChoices(u) :
         /\ wpid' = [wpid EXCEPT ![u] = pid]
         \* newgisrc = "%s_%s" % (gisrc, str(os.getpid()));
         \* grass.try_remove(newgisrc); shutil.copyfile(gisrc, newgisrc)
         /\ wgisrc' = [v \in Units |->
                         IF v = u THEN TRUE
                         ELSE IF wpid[v] = pid THEN FALSE ELSE wgisrc[v]]
    /\ UNCHANGED <<cfgVars, exitVars, error, cell_misc, opt, maskVars, importVars, mainVars,
                   proc_list, step, wname, gisrc_mapset>>

\* i.sentinel.mask.worker: g.copy of the bands, g.region, then i.sentinel.mask
\* through run_command, which raises when the step fails: the worker exits
\* with a non-zero status and does not reach try_remove(newgisrc)
MaskWorkerRun(u) ==
    /\ pipeline = "mask"
    /\ wstate[u] = "setup"
    /\ \/ \E produced \in SUBSET {MapName(k, u) : k \in Kinds} :
            /\ step' = [step EXCEPT ![u] = "ok"]
            /\ wstate' = [wstate EXCEPT ![u] = "ok"]
            /\ wmapset' = [wmapset EXCEPT
                              ![wname[u]] = @ \cup {<<"bands", u>>} \cup produced]
            /\ wgisrc' = [wgisrc EXCEPT ![u] = FALSE]
            /\ UNCHANGED wpid
       \/ /\ step' = [step EXCEPT ![u] = "failed"]
          /\ wstate' = [wstate EXCEPT ![u] = "failed"]
          /\ wmapset' = [wmapset EXCEPT ![wname[u]] = @ \cup {<<"bands", u>>}]
          /\ UNCHANGED <<wgisrc, wpid>>
    /\ UNCHANGED <<cfgVars, exitVars, error, cell_misc, opt, maskVars, importVars, mainVars,
                   proc_list, wname, gisrc_mapset>>

\* faulty variant: with the flag c the cloud masks come as rasters
ImportOutputsRasterClouds(u) ==
    {<<"B04", entries[u].scene>>}
      \cup (IF opt.flag_c THEN {<<"rCLOUDS", entries[u].scene>>} ELSE {})

\* what i.sentinel.import can write for the scene of directory entry u: the
\* worker hands on the flag c and no cloud_output, so cloud masks are vectors
ImportOutputs(u) ==
    {<<"B04", entries[u].scene>>}
      \cup (IF opt.flag_c THEN {<<"vCLOUDS", entries[u].scene>>} ELSE {})

IsRaster(n) == n[1] \in {"B04", "rCLOUDS"}
IsVector(n) == n[1] = "vCLOUDS"

\* a raster of another mapset of the worker's search path
OtherRaster == <<"B04", 0>>

\* g.list type=raster without mapset=: the rasters of every mapset in the
\* search path of the worker's new mapset
GList(maps, other) ==
    {n \in maps : IsRaster(n)} \cup (IF other = 1 THEN {OtherRaster} ELSE {})

\* i.sentinel.import.worker: i.sentinel.import is run through Popen and its
\* exit status is not looked at; with -i the worker ends with a fatal error
\* when g.list finds no raster ('No band found')
ImportWorkerExit(flag_i, maps) ==
    IF flag_i /\ ~(\E n \in maps : IsRaster(n)) THEN "failed" ELSE "ok"

\* the worker never removes its private session file; i.sentinel.import is
\* given metadata=<cell_misc of the orchestrator's mapset> and writes the
\* description.json of every raster it imports there
ImportWorkerRun(u) ==
    /\ pipeline = "import"
    /\ wstate[u] = "setup"
    /\ \E status \in {"ok", "failed"} :
       \E produced \in SUBSET ImportOutputs(u) :
       LET maps == wmapset[wname[u]] \cup produced IN
       \E other \in (IF opt.flag_i /\ ~(\E n \in maps : IsRaster(n))
                       THEN Read(opt.other_rasters, {0, 1})
                       ELSE {opt.other_rasters}) :
            /\ opt' = [opt EXCEPT !.other_rasters = other]
            /\ step' = [step EXCEPT ![u] = status]
            /\ wmapset' = [wmapset EXCEPT ![wname[u]] = maps]
            /\ cell_misc' = cell_misc \cup {n \in produced : IsRaster(n)}
            /\ wstate' = [wstate EXCEPT
                             ![u] = ImportWorkerExit(opt.flag_i, GList(maps, other))]
    /\ UNCHANGED <<cfgVars, exitVars, error, maskVars, importVars, mainVars, proc_list, wname,
                   wgisrc, wpid, gisrc_mapset>>

\* another process of the session rewrites the session file while the
\* orchestrator is blocked in wait(); main() reads the file again right after
SessionInterference ==
    /\ pc = "wait"
    /\ gisrc_mapset = start_cur_mapset
    /\ \E m \in Mapsets \ {gisrc_mapset} : gisrc_mapset' = m
    /\ UNCHANGED <<cfgVars, exitVars, error, cell_misc, opt, maskVars, importVars, mainVars,
                   proc_list, workerVars>>

(***************************************************************************)
(* Steps both orchestrators share.                                         *)
(***************************************************************************)
\* queue.put(module) for unit u, whose worker is told to work in mapset name
Put(u, name) ==
    /\ wname' = [wname EXCEPT ![u] = name]
    /\ wstate' = [wstate EXCEPT ![u] = "spawned"]
    /\ proc_list' = Append(proc_list, u)
    /\ pc' = IF QueueFull(proc_list', QueueNprocs) THEN "put_wait" ELSE "dispatch"

\* faulty variant: the dispatch loop is not followed by queue.wait()
DispatchEndNoWait ==
    /\ pc = "dispatch"
    /\ idx > nscenes
    /\ pc' = "after_wait"
    /\ UNCHANGED <<idx, start_cur_mapset, shared, regfile>>
    /\ UNCHANGED <<cfgVars, exitVars, error, cell_misc, opt, maskVars, importVars, proc_list, workerVars,
                   gisrc_mapset>>

\* the end of the dispatch loop: queue.wait()
DispatchEnd ==
    /\ pc = "dispatch"
    /\ idx > nscenes
    /\ pc' = "wait"
    /\ UNCHANGED <<idx, start_cur_mapset, shared, regfile>>
    /\ UNCHANGED <<cfgVars, exitVars, error, cell_misc, opt, maskVars, importVars, proc_list, workerVars,
                   gisrc_mapset>>

\* "verify that switching the mapset worked": grass.fatal when the MAPSET of
\* the session differs from the one recorded before dispatch
\* faulty variant: the recorded mapset is compared with itself
MapsetChangedSelf(cur_mapset, start) == start # start

MapsetChanged(cur_mapset, start) == cur_mapset # start

\* g.remove works on the mapset the session file names; a name it does not
\* find there is left where it is
GRemove(names, have) == IF gisrc_mapset = start_cur_mapset THEN have \ names ELSE have

Verify ==
    /\ pc = "after_wait"
    \* t.sentinel.import: g.remove type=region name=currentregion right after wait()
    /\ regions' = IF pipeline = "import" THEN GRemove({TmpRegion}, regions) ELSE regions
    /\ IF MapsetChanged(gisrc_mapset, start_cur_mapset)
         THEN pc' = "fatal" /\ idx' = idx
         ELSE pc' = "copy" /\ idx' = 1
    /\ UNCHANGED <<start_cur_mapset, shared, regfile>>
    /\ UNCHANGED <<cfgVars, rm_rasters, rm_regions, error, cell_misc, opt, maskVars, importVars, proc_list, workerVars,
                   gisrc_mapset>>

\* cleanup(), registered with atexit: it runs when main() has returned, after
\* grass.fatal and after an exception nothing has caught
Cleanup ==
    /\ pc \in {"done", "crashed", "fatal"}
    /\ pc' = "exited"
    /\ regions' = GRemove(rm_regions, regions)
    /\ shared' = LET keep == GRemove(rm_rasters, DOMAIN shared)
                 IN [n \in keep |-> shared[n]]
    /\ UNCHANGED <<idx, start_cur_mapset, regfile>>
    /\ UNCHANGED <<cfgVars, rm_rasters, rm_regions, error, cell_misc, opt, maskVars,
                   importVars, proc_list, workerVars, gisrc_mapset>>

(***************************************************************************)
(* t.sentinel.mask main()                                                  *)
(***************************************************************************)
\* the bands i.sentinel.mask needs
Bands == {"B02", "B03", "B04", "B08", "B8A", "B11", "B12"}

\* what the input dataset holds for the bands of one scene: a raster with
\* data, a raster that is NULL in the whole current region, or no raster
BandStates ==
    {[b \in Bands |-> "data"], [b \in Bands |-> "null"],
     [b \in Bands |-> IF b = "B02" THEN "null" ELSE "absent"]}
    \cup {[b \in Bands |-> IF b = x THEN st ELSE "data"] :
            x \in {"B02", "B12"}, st \in {"null", "absent"}}

\* the scene gets an entry in s2_scenes: one of its rasters is not skipped
HasData(c) == \E b \in Bands : c.bands[b] = "data"

\* faulty variant: the last band is not looked at
BandsGivenButLast(c) == \A b \in Bands \ {"B12"} : c.bands[b] = "data"

\* no value of the scene's entry is None
BandsGiven(c) == \A b \in Bands : c.bands[b] = "data"

\* the loop over t.rast.list and the check that follows it
MaskScan ==
    /\ pipeline = "mask"
    /\ pc = "scan"
    /\ LET kept == SelectSeq(rasters, HasData)
       IN /\ nscenes' = Len(kept)
          /\ s2_scenes' = [s \in 1..Len(kept) |->
               [date |-> kept[s].date, pct |-> Unread,
                clouds |-> MapName("clouds", s),
                shadows |-> IF opt.output_shadows
                              THEN MapName("shadows", s) ELSE NoName]]
          /\ IF \E s \in 1..Len(kept) : ~BandsGiven(kept[s])
               THEN pc' = "fatal" /\ error' = "Not all needed bands are given"
               ELSE pc' = "dispatch" /\ UNCHANGED error
    /\ UNCHANGED <<pipeline, entries, pinput, pline, pattern, subsets, rasters, pid_reuse, layers>>
    /\ UNCHANGED exitVars
    /\ UNCHANGED <<cell_misc, opt, dates_todo, cloudfree, importVars, idx, start_cur_mapset,
                   shared, regfile, proc_list, workerVars, gisrc_mapset>>

\* faulty variant: the comparison with the threshold is turned around
ComputingCloudsInverted(threshold, pct) ==
    IF threshold > 0 THEN ~(threshold < pct) ELSE TRUE

\* faulty variant: a scene exactly at the threshold is skipped as well
ComputingCloudsStrict(threshold, pct) ==
    IF threshold > 0 THEN pct > threshold ELSE TRUE

\* computingClouds of the dispatch loop
ComputingClouds(threshold, pct) ==
    IF threshold > 0 THEN ~(threshold > pct) ELSE TRUE

MaskDispatch ==
    /\ pipeline = "mask"
    /\ pc = "dispatch"
    /\ idx <= nscenes
    /\ \E pct \in (IF opt.threshold > 0 THEN Pcts ELSE {Unread}) :
         /\ s2_scenes' = [s2_scenes EXCEPT ![idx].pct = pct]
         /\ IF ComputingClouds(opt.threshold, pct)
              THEN Put(idx, NewMapsetName(idx))
              ELSE UNCHANGED <<wstate, wname, proc_list, pc>>
    /\ idx' = idx + 1
    \* for band in bands: rm_rasters.append("%s_double" % s2_scene[band])
    /\ rm_rasters' = rm_rasters \cup {DoubleName(idx)}
    /\ UNCHANGED <<cfgVars, rm_regions, regions, error, cell_misc, opt, dates_todo, cloudfree, importVars, start_cur_mapset, shared,
                   regfile, step, wmapset, wgisrc, wpid, gisrc_mapset>>

\* faulty variant: the copy loop copies the masks as the workers wrote them
CopyBackUnfiltered(has, min_size, reclass_ok) == IF has THEN "copied" ELSE "null"

\* faulty variant: the except branch keeps what r.reclass.area has left
CopyBackNoWorkaround(has, min_size, reclass_ok) ==
    IF has THEN (IF min_size # 0 THEN "filtered" ELSE "copied") ELSE "null"

\* one kind of one scene in the copy loop: r.reclass.area (null() when it
\* raises), g.copy, or null() when the worker mapset holds no such raster
CopyBack(has, min_size, reclass_ok) ==
    IF has
      THEN IF min_size # 0
             THEN (IF reclass_ok THEN "filtered" ELSE "null")
             ELSE "copied"
      ELSE "null"

\* faulty variant: the copy loop has no branch for a mask the worker mapset
\* does not hold
CopyOutcomeNoNull(has, min_size, exists, overwrite, strict) ==
    IF ~has THEN "keep"
    ELSE IF exists /\ overwrite = 0
      THEN (IF min_size = 0 /\ ~strict THEN "keep" ELSE "fail")
      ELSE "write"

\* one mask of the copy loop when its name is taken in the current mapset:
\* without GRASS_OVERWRITE r.reclass.area and r.mapcalc end with an error;
\* g.copy leaves the map as it is, or ends with an error too (strict)
CopyOutcome(has, min_size, exists, overwrite, strict) ==
    IF exists /\ overwrite = 0
      THEN (IF has /\ min_size = 0 /\ ~strict THEN "keep" ELSE "fail")
      ELSE "write"

\* find_file(s2_scene[kind], element='raster', mapset=newmapset)['file']
FindFile(kind, s) == MapName(kind, s) \in wmapset[NewMapsetName(s)]

MaskCopy ==
    /\ pipeline = "mask"
    /\ pc = "copy"
    /\ idx <= nscenes
    /\ \E mc \in (IF FindFile("clouds", idx)
                    THEN Read(opt.min_size_clouds, MinSizes)
                    ELSE {opt.min_size_clouds}) :
       \E ms \in (IF opt.output_shadows /\ FindFile("shadows", idx)
                    THEN Read(opt.min_size_shadows, MinSizes)
                    ELSE {opt.min_size_shadows}) :
       \E reclass_ok \in [Kinds -> BOOLEAN] :
       \E ow \in (IF \E k \in Kinds : Exists(MapName(k, idx))
                    THEN Read(opt.overwrite, {0, 1})
                    ELSE {opt.overwrite}) :
       \E strict \in (IF ow = 0 /\ \E k \in Kinds : Exists(MapName(k, idx))
                        THEN BOOLEAN ELSE {FALSE}) :
         LET min_size == [k \in {"clouds", "shadows"} |->
                            IF k = "clouds" THEN mc ELSE ms]
             outcome == [k \in Kinds |->
                            CopyOutcome(FindFile(k, idx), min_size[k],
                                        Exists(MapName(k, idx)), ow, strict)]
             \* the clouds come first: an error there leaves the shadows alone
             written == {k \in Kinds : /\ outcome[k] = "write"
                                       /\ k = "shadows" => outcome["clouds"] # "fail"}
             \* r.reclass.area raised and the except branch gave its message
             excepted == {k \in Kinds : /\ FindFile(k, idx)
                                        /\ min_size[k] # 0
                                        /\ ~reclass_ok[k] \/ outcome[k] = "fail"
                                        /\ k = "shadows" => outcome["clouds"] # "fail"}
         IN
         /\ \A k \in Kinds :
              (~FindFile(k, idx) \/ min_size[k] = 0) => reclass_ok[k]
         /\ opt' = [opt EXCEPT !.min_size_clouds = mc, !.min_size_shadows = ms,
                               !.overwrite = ow]
         /\ cloudfree' = cloudfree \cup {MapName(k, idx) : k \in excepted}
         /\ shared' = PutMaps(shared,
              [n \in {MapName(k, idx) : k \in written} |->
                  CopyBack(FindFile(n[1], idx), min_size[n[1]], reclass_ok[n[1]])])
         /\ IF \E k \in Kinds : outcome[k] = "fail"
              THEN /\ pc' = "crashed"
                   /\ error' = "exists"
                   /\ UNCHANGED <<wmapset, idx>>
              ELSE \* grass.utils.try_rmdir(os.path.join(gisdbase, location, newmapset))
                   /\ wmapset' = [wmapset EXCEPT ![NewMapsetName(idx)] = NoMapset]
                   /\ idx' = idx + 1
                   /\ UNCHANGED <<pc, error>>
    /\ UNCHANGED <<cfgVars, exitVars, cell_misc, s2_scenes, dates_todo, importVars,
                   start_cur_mapset, regfile, proc_list, wstate, step, wname, wgisrc, wpid,
                   gisrc_mapset>>

\* unique_dates = list(set(all_dates))
UniqueDates == {s2_scenes[s].date : s \in 1..nscenes}

\* faulty variant: the copy loop is left after its first scene
CopyLoopDoneEarly == idx > 1

\* "for s2_scene_name in s2_scenes" of the copy loop has run out
CopyLoopDone == idx > nscenes

MaskCopyEnd ==
    /\ pipeline = "mask"
    /\ pc = "copy"
    /\ CopyLoopDone
    /\ pc' = "merge"
    /\ dates_todo' = UniqueDates
    /\ UNCHANGED <<cfgVars, exitVars, error, cell_misc, opt, s2_scenes, cloudfree, importVars, idx, start_cur_mapset, shared,
                   regfile, proc_list, workerVars, gisrc_mapset>>

\* faulty variant: the scenes are grouped by day, as the patch name is
DateScenesByDay(d) == {s \in 1..nscenes : s2_scenes[s].date[1] = d[1]}

\* the scenes of one entry of dates_scenes
DateScenes(d) == {s \in 1..nscenes : s2_scenes[s].date = d}

\* faulty variant: a date is patched only from three scenes on
NeedsPatchOffByOne(d) == Cardinality(DateScenes(d)) > 2

\* if len(date_scenes['scenes']) > 1
NeedsPatch(d) == Cardinality(DateScenes(d)) > 1

KindOf(n) == IF n[1] \in {"clouds", "clouds_patched"} THEN "clouds" ELSE "shadows"

\* r.patch of the masks of one date: empty when every input is empty
PatchContent(inputs) ==
    IF \A n \in inputs : shared[n] = "null" THEN "null" ELSE "patched"

\* the pointers of the scenes of date d after the patch
Repoint(scenes, d) ==
    [s \in DOMAIN scenes |->
        IF scenes[s].date = d
          THEN [scenes[s] EXCEPT
                  !.clouds = PatchName("clouds", d),
                  !.shadows = IF opt.output_shadows
                                THEN PatchName("shadows", d) ELSE @]
          ELSE scenes[s]]

\* faulty variant: the names the scenes point to after the patch are listed
PatchInputsRepointed(d) == {PatchName(k, d) : k \in Kinds}

\* date_scenes['clouds'] and date_scenes['shadows']: the masks of the scenes
\* of date d under the names they had when dates_scenes was built
PatchInputs(d) == {MapName(k, s) : k \in Kinds, s \in DateScenes(d)}

\* one iteration of "for date_scenes in dates_scenes"; the order of
\* list(set(...)) is not fixed by the program.  r.patch refuses to write an
\* output that exists unless GRASS_OVERWRITE is set.
MaskMerge(d) ==
    /\ pipeline = "mask"
    /\ pc = "merge"
    /\ d \in dates_todo
    /\ dates_todo' = dates_todo \ {d}
    \* rm_rasters.extend(...) comes before r.patch
    /\ rm_rasters' = IF NeedsPatch(d) THEN rm_rasters \cup PatchInputs(d) ELSE rm_rasters
    /\ IF NeedsPatch(d)
         THEN \E ow \in (IF \E k \in Kinds : Exists(PatchName(k, d))
                           THEN Read(opt.overwrite, {0, 1})
                           ELSE {opt.overwrite}) :
                /\ opt' = [opt EXCEPT !.overwrite = ow]
                /\ IF ow = 1 \/ ~(\E k \in Kinds : Exists(PatchName(k, d)))
                     THEN /\ shared' = PutMaps(shared,
                               [n \in {PatchName(k, d) : k \in Kinds} |->
                                  PatchContent({s2_scenes[s][KindOf(n)] :
                                                   s \in DateScenes(d)})])
                          /\ s2_scenes' = Repoint(s2_scenes, d)
                          /\ UNCHANGED <<pc, error>>
                     ELSE /\ pc' = "crashed"
                          /\ error' = "exists"
                          /\ UNCHANGED <<shared, s2_scenes>>
         ELSE UNCHANGED <<opt, shared, s2_scenes, pc, error>>
    /\ UNCHANGED <<cfgVars, rm_regions, regions, cell_misc, cloudfree, importVars, idx, start_cur_mapset, regfile,
                   proc_list, workerVars, gisrc_mapset>>

MaskMergeEnd ==
    /\ pipeline = "mask"
    /\ pc = "merge"
    /\ dates_todo = {}
    /\ pc' = "register_clouds"
    /\ UNCHANGED <<idx, start_cur_mapset, shared, regfile>>
    /\ UNCHANGED <<cfgVars, exitVars, error, cell_misc, opt, maskVars, importVars, proc_list, workerVars,
                   gisrc_mapset>>

\* the register-file loop: one line per pointer that is not yet in
\* clouds_registered / shadows_registered
RECURSIVE RegisterLoop(_, _, _)
RegisterLoop(kind, s, file) ==
    IF s > nscenes THEN file
    ELSE IF \E i \in 1..Len(file) : file[i].name = s2_scenes[s][kind]
           THEN RegisterLoop(kind, s + 1, file)
           ELSE RegisterLoop(kind, s + 1,
                  Append(file, [name |-> s2_scenes[s][kind],
                                date |-> s2_scenes[s].date]))

\* faulty variant: one line per scene, written without looking at clouds_registered
RegisterFilePerScene(kind) ==
    [s \in 1..nscenes |-> [name |-> s2_scenes[s][kind], date |-> s2_scenes[s].date]]

RegisterFile(kind) == RegisterLoop(kind, 1, <<>>)

MaskRegisterClouds ==
    /\ pipeline = "mask"
    /\ pc = "register_clouds"
    /\ regfile' = [regfile EXCEPT !.clouds = RegisterFile("clouds")]
    /\ pc' = IF opt.output_shadows THEN "register_shadows" ELSE "done"
    /\ UNCHANGED <<idx, start_cur_mapset, shared>>
    /\ UNCHANGED <<cfgVars, exitVars, error, cell_misc, opt, maskVars, importVars, proc_list, workerVars,
                   gisrc_mapset>>

MaskRegisterShadows ==
    /\ pipeline = "mask"
    /\ pc = "register_shadows"
    /\ regfile' = [regfile EXCEPT !.shadows = RegisterFile("shadows")]
    /\ pc' = "done"
    /\ UNCHANGED <<idx, start_cur_mapset, shared>>
    /\ UNCHANGED <<cfgVars, exitVars, error, cell_misc, opt, maskVars, importVars, proc_list, workerVars,
                   gisrc_mapset>>

(***************************************************************************)
(* t.sentinel.import main()                                                *)
(***************************************************************************)
\* rm_regions after "save current region"
RmRegions == IF opt.addons THEN {} ELSE {TmpRegion}

\* faulty variant: the queue gets as many places as were asked for
NprocsFinalAsAsked == opt.nprocs

\* nprocs_final = min(number_of_scenes, int(options['nprocs'])); the copy of
\* the module under grass-gis-addons counts the names given in s2names
NprocsFinal ==
    IF opt.addons THEN Min(opt.n_s2names, opt.nprocs) ELSE Min(nscenes, opt.nprocs)

\* abs()
Abs(x) == IF x < 0 THEN -x ELSE x

\* round(float(a) / b) of Python 3 for a >= 0 and b > 0: to the nearest
\* integer, a tie goes to the even one
Round(a, b) ==
    LET q == a \div b
        r == a % b
    IN IF 2 * r < b THEN q
       ELSE IF 2 * r > b THEN q + 1
       ELSE IF q % 2 = 0 THEN q ELSE q + 1

\* faulty variant: the memory asked for is kept whatever the host has free
ClampMemoryNever(memory, free_ram) == memory

\* options['memory'] after "if free_ram < memory"
ClampMemory(memory, free_ram) == IF free_ram < memory THEN free_ram ELSE memory

\* test_nprocs_memory(): nothing catches NotImplementedError of
\* mp.cpu_count(); freeRAM() needs psutil, whose failed import is only
\* warned about (NameError); the copy under grass-gis-addons parses the
\* output of free, warns when that fails and returns None, which abs()
\* refuses (TypeError), and it does not change nprocs
TestNprocsMemory ==
    /\ pipeline = "import"
    /\ pc = "test"
    /\ IF budget.nprocs_real = Unavailable
         THEN /\ pc' = "crashed"
              /\ error' = "NotImplementedError"
              /\ UNCHANGED <<opt, budget>>
         ELSE LET many == opt.nprocs > budget.nprocs_real
                  warned == IF many THEN {"nprocs"} ELSE {}
              IN /\ opt' = [opt EXCEPT !.nprocs = IF many /\ ~opt.addons
                                                   THEN budget.nprocs_real ELSE @]
                 /\ IF budget.free_ram = Unavailable
                      THEN /\ pc' = "crashed"
                           /\ error' = IF opt.addons THEN "TypeError" ELSE "NameError"
                           /\ budget' = [budget EXCEPT !.warnings =
                                warned \cup (IF opt.addons THEN {"not checked"} ELSE {})]
                      ELSE LET free_ram == Abs(budget.free_ram)
                           IN /\ budget' = [budget EXCEPT
                                   !.memory = ClampMemory(budget.memory, free_ram),
                                   !.warnings = warned \cup
                                       (IF free_ram < budget.memory
                                          THEN {"memory"} ELSE {})]
                              /\ pc' = "start"
                              /\ UNCHANGED error
    /\ UNCHANGED <<idx, start_cur_mapset, shared, regfile>>
    /\ UNCHANGED <<cfgVars, exitVars, cell_misc, maskVars, nprocs_final, mapsetids, maplist,
                   cloudlist, proc_list, workerVars, gisrc_mapset>>

\* memory_per_proc = round(float(options['memory'])/nprocs_final) divides by it
ImportStart ==
    /\ pipeline = "import"
    /\ pc = "start"
    /\ nprocs_final' = NprocsFinal
    \* g.region save=currentregion; only the current copy has
    \* rm_regions.append(currentregion)
    /\ regions' = regions \cup {TmpRegion}
    /\ rm_regions' = RmRegions
    /\ IF nprocs_final' = 0
         THEN pc' = "crashed" /\ error' = "ZeroDivisionError" /\ UNCHANGED budget
         ELSE /\ pc' = "dispatch"
              /\ error' = error
              /\ budget' = [budget EXCEPT
                    !.memory_per_proc = Round(budget.memory, nprocs_final')]
    /\ UNCHANGED <<idx, start_cur_mapset, shared, regfile>>
    /\ UNCHANGED <<cfgVars, rm_rasters, cell_misc, opt, maskVars, mapsetids, maplist, cloudlist,
                   proc_list, workerVars, gisrc_mapset>>

\* faulty variant: every entry of the directory is given to a worker
SkippedEntryNever(i) == FALSE

\* an entry of input_dir that is neither .SAFE nor .zip is skipped; the copy
\* under grass-gis-addons skips what is not a directory
SkippedEntry(i) ==
    IF opt.addons
      THEN entries[i].kind = "other"
      ELSE ~opt.single_folders /\ entries[i].kind = "other"

\* the options i.sentinel.import.worker declares
WorkerOptions ==
    {"input", "pattern", "pattern_file", "mapsetid", "region", "memory",
     "directory", "metadata"}

\* the keyword arguments of Module("i.sentinel.import.worker", ...)
ImportKwargs ==
    IF opt.addons
      THEN {"input", "mapsetid", "memory", "pattern", "region", "metadata"}
      ELSE {"mapsetid", "memory", "pattern", "metadata", "input"}
             \cup (IF opt.flag_c THEN {"cloud_output"} ELSE {})
             \cup (IF opt.single_folders THEN {} ELSE {"pattern_file"})

\* pygrass raises ParameterError for a keyword the module does not declare
ParameterError == ~(ImportKwargs \subseteq WorkerOptions)

ImportDispatch ==
    /\ pipeline = "import"
    /\ pc = "dispatch"
    /\ idx <= nscenes
    /\ IF SkippedEntry(idx)
         THEN /\ mapsetids' = IF opt.addons THEN mapsetids
                                            ELSE Append(mapsetids, MapsetId(idx))
              /\ idx' = idx + 1
              /\ UNCHANGED <<wstate, wname, proc_list, pc, error>>
         ELSE /\ mapsetids' = Append(mapsetids, MapsetId(idx))
              /\ IF ParameterError
                   THEN /\ pc' = "crashed"
                        /\ error' = "ParameterError"
                        /\ UNCHANGED <<wstate, wname, proc_list, idx>>
                   ELSE /\ Put(idx, MapsetId(idx))
                        /\ idx' = idx + 1
                        /\ error' = error
    /\ UNCHANGED <<cfgVars, exitVars, cell_misc, opt, maskVars, nprocs_final, budget, maplist, cloudlist,
                   start_cur_mapset, shared, regfile, step, wmapset, wgisrc, wpid, gisrc_mapset>>

\* the rasters and vectors g.list finds in new_mapset, in the order of the loops
RECURSIVE SetToSeq(_)
SetToSeq(S) ==
    IF S = {} THEN <<>>
    ELSE LET x == CHOOSE y \in S : TRUE IN <<x>> \o SetToSeq(S \ {x})

IsCloudName(n) == n[1] \in {"rCLOUDS", "vCLOUDS"}
IsBandName(n) == ~IsCloudName(n)

\* faulty variant: a map whose name is taken is never written
RECURSIVE CopyMapsKeep(_, _, _, _)
CopyMapsKeep(seq, sh, overwrite, strict) ==
    IF seq = <<>> THEN [shared |-> sh, ok |-> TRUE]
    ELSE IF Head(seq) \in DOMAIN sh
           THEN CopyMapsKeep(Tail(seq), sh, overwrite, strict)
           ELSE CopyMapsKeep(Tail(seq), PutMaps(sh, [m \in {Head(seq)} |-> "copied"]),
                             overwrite, strict)

\* g.copy of the maps of one mapset, one call each, none with overwrite=True:
\* when the name is taken and GRASS_OVERWRITE is not set, g.copy leaves the
\* map as it is, or ends with an error (strict) and run_command raises
RECURSIVE CopyMaps(_, _, _, _)
CopyMaps(seq, sh, overwrite, strict) ==
    IF seq = <<>> THEN [shared |-> sh, ok |-> TRUE]
    ELSE IF Head(seq) \in DOMAIN sh /\ overwrite = 0
           THEN (IF strict THEN [shared |-> sh, ok |-> FALSE]
                 ELSE CopyMaps(Tail(seq), sh, overwrite, strict))
           ELSE CopyMaps(Tail(seq), PutMaps(sh, [m \in {Head(seq)} |-> "copied"]),
                         overwrite, strict)

\* one iteration of "for new_mapset in mapsetids": every vector goes to
\* cloudlist, every raster to cloudlist when its name holds CLOUDS and to
\* maplist otherwise (the copy under grass-gis-addons puts every raster into
\* maplist); all are copied and the mapset is removed
ImportCopy ==
    /\ pipeline = "import"
    /\ pc = "copy"
    /\ idx <= Len(mapsetids)
    /\ LET new_mapset == mapsetids[idx]
           vects == SetToSeq({n \in wmapset[new_mapset] : IsVector(n)})
           rasts == SetToSeq({n \in wmapset[new_mapset] : IsRaster(n)})
           taken == \E n \in Range(vects) \cup Range(rasts) : Exists(n)
       IN \E ow \in (IF taken THEN Read(opt.overwrite, {0, 1}) ELSE {opt.overwrite}) :
          \E strict \in (IF taken /\ ow = 0 THEN BOOLEAN ELSE {FALSE}) :
          \* g.list mapset=<a mapset that was never made> lists nothing, or ends
          \* with an error that parse_command raises
          \E listed \in (IF wmapset[new_mapset] = NoMapset THEN BOOLEAN ELSE {TRUE}) :
          LET copied == CopyMaps(vects \o rasts, shared, ow, strict)
              res == [shared |-> copied.shared, ok |-> copied.ok /\ listed] IN
          /\ opt' = [opt EXCEPT !.overwrite = ow]
          /\ shared' = res.shared
          /\ IF res.ok
               THEN /\ cloudlist' = cloudlist \o vects \o
                         (IF opt.addons THEN <<>> ELSE SelectSeq(rasts, IsCloudName))
                    /\ maplist' = maplist \o
                         (IF opt.addons THEN rasts ELSE SelectSeq(rasts, IsBandName))
                    /\ wmapset' = [wmapset EXCEPT ![new_mapset] = NoMapset]
                    /\ idx' = idx + 1
                    /\ UNCHANGED <<pc, error>>
               ELSE /\ pc' = "crashed"
                    /\ error' = IF listed THEN "exists" ELSE "CalledModuleError"
                    /\ UNCHANGED <<cloudlist, maplist, wmapset, idx>>
    /\ UNCHANGED <<cfgVars, exitVars, cell_misc, maskVars, nprocs_final, budget, mapsetids,
                   start_cur_mapset, regfile, proc_list, wstate, step, wname, wgisrc, wpid,
                   gisrc_mapset>>

ImportCopyEnd ==
    /\ pipeline = "import"
    /\ pc = "copy"
    /\ idx > Len(mapsetids)
    /\ pc' = "register"
    /\ UNCHANGED <<idx, start_cur_mapset, shared, regfile>>
    /\ UNCHANGED <<cfgVars, exitVars, error, cell_misc, opt, maskVars, importVars, proc_list,
                   workerVars, gisrc_mapset>>

\* faulty variant: the lines are not made from a set, a name can come twice
OrdersWithRepeats(S) == [1..Cardinality(S) -> S]

\* the orders in which list(set(maplist)) can come out
Orders(S) ==
    {q \in [1..Cardinality(S) -> S] : \A i, j \in DOMAIN q : i # j => q[i] # q[j]}

\* the register file of the band dataset and, with -c, of the cloud dataset
ImportRegister ==
    /\ pipeline = "import"
    /\ pc = "register"
    /\ \E bands \in Orders(Range(maplist)) :
         regfile' = [regfile EXCEPT
                       !.bands = [i \in DOMAIN bands |-> [name |-> bands[i]]],
                       !.clouds = IF opt.flag_c
                                    THEN [i \in DOMAIN cloudlist |->
                                            [name |-> cloudlist[i]]]
                                    ELSE @]
    /\ pc' = "done"
    /\ UNCHANGED <<idx, start_cur_mapset, shared>>
    /\ UNCHANGED <<cfgVars, exitVars, error, cell_misc, opt, maskVars, importVars, proc_list, workerVars,
                   gisrc_mapset>>

(***************************************************************************)
(* The lines of the register files of t.sentinel.import.  A map name is a  *)
(* sequence of characters; split, the slices and replace are Python's.     *)
(***************************************************************************)
\* str.split(sep) for a separator of one character
RECURSIVE Split(_, _)
Split(s, sep) ==
    IF \E i \in 1..Len(s) : s[i] = sep
      THEN LET i == CHOOSE k \in 1..Len(s) :
                        s[k] = sep /\ \A j \in 1..(k - 1) : s[j] # sep
           IN <<SubSeq(s, 1, i - 1)>> \o Split(SubSeq(s, i + 1, Len(s)), sep)
      ELSE <<s>>

\* faulty variant: the slice takes the character at its upper end as well
SliceInclusive(s, a, b) ==
    IF a >= Min(b + 1, Len(s)) THEN <<>> ELSE SubSeq(s, a + 1, Min(b + 1, Len(s)))

\* s[a:b]: never an error, cut to the length of s
Slice(s, a, b) ==
    IF a >= Min(b, Len(s)) THEN <<>> ELSE SubSeq(s, a + 1, Min(b, Len(s)))

\* s[a:]
SliceFrom(s, a) == Slice(s, a, Len(s))

\* str.replace(old, ""): every occurrence of old, from the left
RECURSIVE Remove(_, _)
Remove(s, old) ==
    IF Len(s) < Len(old) THEN s
    ELSE IF SubSeq(s, 1, Len(old)) = old
           THEN Remove(SubSeq(s, Len(old) + 1, Len(s)), old)
           ELSE <<Head(s)>> \o Remove(Tail(s), old)

\* "%s-%s-%s" % (date_str1[:4], date_str1[4:6], date_str1[6:]) and
\* "%s:%s:%s" % (time_str[:2], time_str[2:4], time_str[4:]), joined by a blank
TimeStamp(date_str1, time_str) ==
    Slice(date_str1, 0, 4) \o <<"-">> \o Slice(date_str1, 4, 6) \o <<"-">>
      \o SliceFrom(date_str1, 6) \o <<" ">>
      \o Slice(time_str, 0, 2) \o <<":">> \o Slice(time_str, 2, 4) \o <<":">>
      \o SliceFrom(time_str, 4)

\* imp_rast.split("_")[2].replace("B0", "").replace("B", "")
BandStr(band_str_tmp1) == Remove(Remove(band_str_tmp1, <<"B", "0">>), <<"B">>)

\* one pass of "for imp_rast in list(set(maplist))": an index that is not
\* there raises IndexError, which nothing catches
BandLine(imp_rast, g79_or_higher) ==
    LET parts == Split(imp_rast, "_") IN
    IF Len(parts) < 3 \/ Len(Split(parts[2], "T")) < 2
      THEN [status |-> "IndexError"]
      ELSE [status |-> "written",
            name |-> imp_rast,
            stamp |-> TimeStamp(Split(parts[2], "T")[1], Split(parts[2], "T")[2]),
            label |-> IF g79_or_higher
                        THEN <<"S", "2", "_">> \o BandStr(parts[3]) ELSE <<>>]

\* one pass of "for imp_clouds in cloudlist"
CloudLine(imp_clouds) ==
    LET parts == Split(imp_clouds, "_") IN
    IF Len(parts) < 2 \/ Len(Split(parts[2], "T")) < 2
      THEN [status |-> "IndexError"]
      ELSE [status |-> "written",
            name |-> imp_clouds,
            stamp |-> TimeStamp(Split(parts[2], "T")[1], Split(parts[2], "T")[2]),
            label |-> <<>>]

\* the names the register loops are given: built from their parts, well
\* formed or malformed in one of the ways of Shapes
Shapes == {"ok", "four_segments", "no_T", "short_date", "long_time",
           "two_segments", "one_segment"}
Prefixes == {<<"S", "2">>, <<"T", "3", "2">>}
Years == {<<"2", "0", "2", "1">>, <<"1", "9", "9", "9">>}
Months == {<<"0", "6">>}
Days == {<<"1", "5">>, <<"0", "1">>}
Hours == {<<"1", "0">>, <<"2", "3">>}
Minutes == {<<"3", "0">>}
Seconds == {<<"2", "1">>, <<"5", "9">>}
BandNames == {<<"B", "0", "4">>, <<"B", "8", "A">>}

Inputs ==
    [shape : Shapes, prefix : Prefixes, year : Years, month : Months, day : Days,
     hour : Hours, minute : Minutes, second : Seconds, band : BandNames]

NoInput == [shape |-> "none"]

DateSegment(in) ==
    in.year \o in.month \o (IF in.shape = "short_date" THEN <<>> ELSE in.day)
      \o (IF in.shape = "no_T" THEN <<>> ELSE <<"T">>)
      \o in.hour \o in.minute \o in.second
      \o (IF in.shape = "long_time" THEN <<"0">> ELSE <<>>)

MakeName(in) ==
    in.prefix
      \o (IF in.shape = "one_segment" THEN <<>> ELSE <<"_">> \o DateSegment(in))
      \o (IF in.shape \in {"one_segment", "two_segments"}
            THEN <<>> ELSE <<"_">> \o in.band)
      \o (IF in.shape = "four_segments" THEN <<"_", "1", "0", "m">> ELSE <<>>)

RegisterBandLine ==
    /\ pinput # NoInput
    /\ pline = <<>>
    /\ \E g79_or_higher \in BOOLEAN :
         pline' = BandLine(MakeName(pinput), g79_or_higher)
    /\ UNCHANGED <<pipeline, nscenes, entries, pinput, pattern, subsets, rasters, pid_reuse, layers>>
    /\ UNCHANGED exitVars
    /\ UNCHANGED <<error, cell_misc, opt, maskVars, importVars, mainVars, proc_list,
                   workerVars, gisrc_mapset>>

RegisterCloudLine ==
    /\ pinput # NoInput
    /\ pline = <<>>
    /\ pline' = CloudLine(MakeName(pinput))
    /\ UNCHANGED <<pipeline, nscenes, entries, pinput, pattern, subsets, rasters, pid_reuse, layers>>
    /\ UNCHANGED exitVars
    /\ UNCHANGED <<error, cell_misc, opt, maskVars, importVars, mainVars, proc_list,
                   workerVars, gisrc_mapset>>

(***************************************************************************)
(* The datasets t.sentinel.import extracts for the bands of the pattern.   *)
(***************************************************************************)
\* the first place of character c in s, 0 when there is none
FirstIndex(s, c) ==
    IF \E i \in 1..Len(s) : s[i] = c
      THEN CHOOSE i \in 1..Len(s) : s[i] = c /\ \A j \in 1..(i - 1) : s[j] # c
      ELSE 0

\* sub in s
Contains(s, sub) ==
    \E i \in 1..(Len(s) - Len(sub) + 1) : SubSeq(s, i, i + Len(sub) - 1) = sub

\* s.replace(old, new)
RECURSIVE Replace(_, _, _)
Replace(s, old, new) ==
    IF Len(s) < Len(old) THEN s
    ELSE IF SubSeq(s, 1, Len(old)) = old
           THEN new \o Replace(SubSeq(s, Len(old) + 1, Len(s)), old, new)
           ELSE <<Head(s)>> \o Replace(Tail(s), old, new)

\* re.findall(r"(.*?)\(", pattern)[0]
BeforeBrackets(p) == SubSeq(p, 1, FirstIndex(p, "(") - 1)

\* re.findall(r"\((.*?)\)", pattern) is not empty
BracketsClosed(p) ==
    FirstIndex(SubSeq(p, FirstIndex(p, "(") + 1, Len(p)), ")") # 0

\* re.findall(r"\((.*?)\)", pattern)[0]
InBrackets(p) ==
    LET rest == SubSeq(p, FirstIndex(p, "(") + 1, Len(p))
    IN SubSeq(rest, 1, FirstIndex(rest, ")") - 1)

\* re.findall(r"\)(.*)", pattern)[0]
AfterBrackets(p) == SubSeq(p, FirstIndex(p, ")") + 1, Len(p))

\* faulty variant: only the first option of the group is taken
PatternBandsFirstOnly(p) ==
    IF FirstIndex(p, "(") # 0
      THEN <<BeforeBrackets(p) \o Head(Split(InBrackets(p), "|")) \o AfterBrackets(p)>>
      ELSE <<Head(Split(p, "|"))>>

\* bands of "extract strds for each band"
PatternBands(p) ==
    IF FirstIndex(p, "(") # 0
      THEN LET options == Split(InBrackets(p), "|")
           IN [i \in DOMAIN options |->
                 BeforeBrackets(p) \o options[i] \o AfterBrackets(p)]
      ELSE Split(p, "|")

\* with -i a band of 20 m or 60 m is looked for under its name at 10 m
ExtractBand(band, flag_i) ==
    IF flag_i /\ (Contains(band, <<"2", "0">>) \/ Contains(band, <<"6", "0">>))
      THEN Replace(Replace(band, <<"2", "0">>, <<"1", "0">>),
                   <<"6", "0">>, <<"1", "0">>)
      ELSE band

\* the parts the patterns are made of
PatternShapes == {"group", "plain", "unclosed"}
PatternPrefixes == {<<>>, <<"B">>}
PatternOptions == {<<"0", "4">>, <<"1", "0">>, <<"2", "0">>}
PatternSuffixes == {<<>>, <<"_", "1", "0", "m">>, <<"_", "2", "0", "m">>}
MaxOptions == 2

PatternInputs ==
    [shape : PatternShapes, prefix : PatternPrefixes, suffix : PatternSuffixes,
     opts : UNION {[1..n -> PatternOptions] : n \in 1..MaxOptions}]

NoPattern == [shape |-> "none"]

\* pieces joined by "|"
RECURSIVE Join(_)
Join(pieces) ==
    IF Len(pieces) = 1 THEN pieces[1]
    ELSE pieces[1] \o <<"|">> \o Join(Tail(pieces))

\* options['pattern']: prefix(opt1|opt2)suffix, the same without the closing
\* bracket, or the band names in full joined by "|"
MakePattern(in) ==
    IF in.shape = "plain"
      THEN Join([i \in DOMAIN in.opts |-> in.prefix \o in.opts[i] \o in.suffix])
      ELSE in.prefix \o <<"(">> \o Join(in.opts)
             \o (IF in.shape = "group" THEN <<")">> ELSE <<>>) \o in.suffix

\* the names before place i of a list
Earlier(names, i) == {names[j] : j \in 1..(i - 1)}

\* "extract strds for each band": one t.rast.extract per band with
\* output=<strds>_<band>; t.rast.extract ends with an error when its output
\* exists and the run has no overwrite flag
ExtractBands ==
    /\ pipeline = "import"
    /\ pc = "extract"
    /\ pattern # NoPattern
    /\ LET p == MakePattern(pattern) IN
       IF FirstIndex(p, "(") # 0 /\ ~BracketsClosed(p)
         THEN /\ pc' = "crashed"
              /\ error' = "IndexError"
              /\ UNCHANGED <<subsets, opt>>
         ELSE LET bands == PatternBands(p)
                  names == [i \in DOMAIN bands |-> ExtractBand(bands[i], opt.flag_i)]
                  twice == {i \in DOMAIN names : names[i] \in Earlier(names, i)}
              IN \E ow \in (IF twice # {} THEN Read(opt.overwrite, {0, 1})
                                         ELSE {opt.overwrite}) :
                   /\ opt' = [opt EXCEPT !.overwrite = ow]
                   /\ IF twice # {} /\ ow = 0
                        THEN LET stop == CHOOSE i \in twice : \A j \in twice : i <= j
                             IN /\ subsets' = SubSeq(names, 1, stop - 1)
                                /\ pc' = "crashed"
                                /\ error' = "exists"
                        ELSE /\ subsets' = names
                             /\ pc' = "done"
                             /\ UNCHANGED error
    /\ UNCHANGED <<pipeline, nscenes, entries, pinput, pline, pattern, rasters, pid_reuse, layers>>
    /\ UNCHANGED exitVars
    /\ UNCHANGED <<cell_misc, maskVars, importVars, idx, start_cur_mapset, shared,
                   regfile, proc_list, workerVars, gisrc_mapset>>

(***************************************************************************)
(* i.sentinel.import.worker -i on the names of the rasters of its mapset.  *)
(***************************************************************************)
\* s.endswith(e)
EndsWith(s, e) ==
    Len(s) >= Len(e) /\ SubSeq(s, Len(s) - Len(e) + 1, Len(s)) = e

\* g.list type=raster pattern='*B*_<res>m'
GlobB(name, res) ==
    /\ EndsWith(name, <<"_">> \o res \o <<"m">>)
    /\ Contains(SubSeq(name, 1, Len(name) - 4), <<"B">>)

\* raster_resamp_list: the rasters at 10 m, then those at 20 m and at 60 m
ResampList(names) ==
    {n \in names : GlobB(n, <<"1", "0">>) \/ GlobB(n, <<"2", "0">>)
                     \/ GlobB(n, <<"6", "0">>)}

\* outname of a raster of the list
OutName(raster) ==
    IF EndsWith(raster, <<"2", "0", "m">>)
      THEN Replace(raster, <<"2", "0", "m">>, <<"1", "0", "m">>)
    ELSE IF EndsWith(raster, <<"6", "0", "m">>)
      THEN Replace(raster, <<"6", "0", "m">>, <<"1", "0", "m">>)
    ELSE raster

\* the rasters of the worker's mapset when the worker has ended: every raster
\* of the list is resampled into its outname, and cleanup() removes the
\* raster it was made from
Resampled(names) ==
    (names \ ResampList(names)) \cup {OutName(n) : n \in ResampList(names)}

\* the resampling of i.sentinel.import.worker and its cleanup(); a raster at
\* 10 m is first renamed to <raster>TMP.  r.resamp.interp ends with an error
\* when its output exists and the run has no overwrite flag; the copy loop
\* and the register loop of t.sentinel.import keep the names of the rasters
WorkerResample ==
    /\ pipeline = "import"
    /\ pc = "resample"
    /\ LET list == ResampList(layers)
           twice == \E n \in list : \E m \in list : n # m /\ OutName(n) = OutName(m)
       IN IF ~opt.flag_i
            THEN /\ pc' = "extract"
                 /\ UNCHANGED <<layers, opt, error>>
            ELSE \E ow \in (IF twice THEN Read(opt.overwrite, {0, 1})
                                     ELSE {opt.overwrite}) :
                   /\ opt' = [opt EXCEPT !.overwrite = ow]
                   /\ IF twice /\ ow = 0
                        THEN /\ pc' = "crashed"
                             /\ error' = "CalledModuleError"
                             /\ UNCHANGED layers
                        ELSE /\ layers' = Resampled(layers)
                             /\ pc' = "extract"
                             /\ UNCHANGED error
    /\ UNCHANGED <<pipeline, nscenes, entries, pinput, pline, pattern, subsets, rasters,
                   pid_reuse>>
    /\ UNCHANGED exitVars
    /\ UNCHANGED <<cell_misc, maskVars, importVars, idx, start_cur_mapset, shared,
                   regfile, proc_list, workerVars, gisrc_mapset>>

(***************************************************************************)
(* Initial states and the specifications.                                  *)
(***************************************************************************)
InitCommon ==
    /\ nscenes \in 0..MaxScenes
    /\ idx = 1
    /\ proc_list = <<>>
    /\ wstate = [u \in Units |-> "idle"]
    /\ step = [u \in Units |-> "none"]
    /\ wname = [u \in Units |-> NoName]
    /\ wgisrc = [u \in Units |-> FALSE]
    /\ wpid = [u \in Units |-> 0]
    /\ cell_misc = {}
    /\ error = "none"
    /\ gisrc_mapset = "PERMANENT"
    /\ start_cur_mapset = "PERMANENT"
    /\ dates_todo = {}
    /\ cloudfree = {}
    /\ regfile = [bands |-> <<>>, clouds |-> <<>>, shadows |-> <<>>]
    /\ nprocs_final = 0
    /\ mapsetids = <<>>
    /\ maplist = <<>>
    /\ cloudlist = <<>>
    /\ rm_rasters = {}
    /\ regions = {}

\* the location holds no mapset of an earlier run
NoEarlierRun == wmapset = [m \in MapsetNames |-> NoMapset]

InitMask ==
    /\ pipeline = "mask"
    /\ InitCommon
    /\ rm_regions = {}
    /\ opt \in [nprocs : 1..MaxProcs, threshold : Thresholds,
                output_shadows : BOOLEAN, min_size_clouds : {Unread},
                min_size_shadows : {Unread}, overwrite : {Unread}]
    /\ entries = <<>>
    /\ \E dates \in [1..nscenes -> Dates] :
         \* t.rast.list lists the rasters of the input ordered by start time
         /\ \A s \in 1..nscenes : \A t \in 1..nscenes :
              s <= t => DateLE(dates[s], dates[t])
         /\ s2_scenes = [s \in 1..nscenes |->
              [date |-> dates[s], pct |-> Unread,
               clouds |-> MapName("clouds", s),
               shadows |-> IF opt.output_shadows
                             THEN MapName("shadows", s) ELSE NoName]]
    /\ pc = "dispatch"

ImportConfig ==
    /\ pipeline = "import"
    /\ InitCommon
    /\ rm_regions = {}
    /\ opt \in [nprocs : 1..MaxProcs, addons : BOOLEAN, single_folders : BOOLEAN,
                flag_c : BOOLEAN, strds_clouds : BOOLEAN, flag_i : BOOLEAN,
                n_s2names : {Unread} \cup 1..MaxScenes,
                other_rasters : {Unread}, overwrite : {Unread}]
    /\ opt.strds_clouds => opt.flag_c
    \* the copy under grass-gis-addons has neither input_dir nor strds_clouds,
    \* and only it sizes the queue by the names in s2names
    /\ opt.addons => ~opt.single_folders /\ ~opt.strds_clouds
    /\ opt.addons <=> opt.n_s2names # Unread
    /\ entries \in [1..nscenes -> [kind : EntryKinds, scene : Units]]
    \* two entries can hold the same scene; scenes are numbered as they appear
    /\ \A i \in 1..nscenes : entries[i].scene <= i
    /\ opt.single_folders => \A i \in 1..nscenes : entries[i].kind = "scene"
    /\ s2_scenes = <<>>

\* t.sentinel.import after test_nprocs_memory()
InitImport == ImportConfig /\ pc = "start"

\* the memory option has its answer and the host had that much free
Tested ==
    budget = [requested |-> DefaultMemory, memory |-> DefaultMemory,
              nprocs_real |-> Unread, free_ram |-> Unread, warnings |-> {},
              memory_per_proc |-> Unread]

\* no name is given to the register loops on their own
NoParse == pinput = NoInput /\ pline = <<>>

\* nor a pattern to the loop over its bands
NoExtract == pattern = NoPattern /\ subsets = <<>> /\ layers = {}

\* the current mapset holds none of the maps the run writes
\* and the scan of the input dataset, where there is one, is over
Init ==
    /\ (InitMask \/ InitImport) /\ shared = <<>> /\ NoParse /\ rasters = <<>> /\ Tested
    /\ NoEarlierRun
    /\ NoExtract
    /\ pid_reuse = FALSE

\* the workers among themselves: the system hands out the ids of ended
\* processes again, and no other process of the session writes the session
\* file
InitSession ==
    /\ (InitMask \/ InitImport) /\ shared = <<>> /\ NoParse /\ rasters = <<>> /\ Tested
    /\ NoEarlierRun
    /\ NoExtract
    /\ pid_reuse = TRUE
    /\ pipeline = "mask" => opt.threshold = 0
    /\ pipeline = "import" =>
         ~opt.addons /\ opt.single_folders /\ ~opt.flag_c /\ ~opt.flag_i

Next ==
    \/ QueueWaitReturn
    \/ QueueWaitRaise
    \/ \E u \in Units : WorkerSetup(u)
    \/ \E u \in Units : MaskWorkerRun(u)
    \/ \E u \in Units : ImportWorkerRun(u)
    \/ SessionInterference
    \/ DispatchEnd
    \/ Verify
    \/ MaskDispatch
    \/ MaskCopy
    \/ MaskCopyEnd
    \/ \E d \in Dates : MaskMerge(d)
    \/ MaskMergeEnd
    \/ MaskRegisterClouds
    \/ MaskRegisterShadows
    \/ ImportStart
    \/ ImportDispatch
    \/ ImportCopy
    \/ ImportCopyEnd
    \/ ImportRegister

Spec == Init /\ [][Next]_vars

\* t.sentinel.mask on its own
InitMaskRun == Init /\ pipeline = "mask"

NextMask ==
    \/ QueueWaitReturn
    \/ QueueWaitRaise
    \/ \E u \in Units : WorkerSetup(u)
    \/ \E u \in Units : MaskWorkerRun(u)
    \/ SessionInterference
    \/ DispatchEnd
    \/ Verify
    \/ MaskDispatch
    \/ MaskCopy
    \/ MaskCopyEnd
    \/ \E d \in Dates : MaskMerge(d)
    \/ MaskMergeEnd
    \/ MaskRegisterClouds
    \/ MaskRegisterShadows

SpecMask == InitMaskRun /\ [][NextMask]_vars

NextSession ==
    \/ QueueWaitReturn
    \/ QueueWaitRaise
    \/ \E u \in Units : WorkerSetup(u)
    \/ \E u \in Units : MaskWorkerRun(u)
    \/ \E u \in Units : ImportWorkerRun(u)
    \/ DispatchEnd
    \/ Verify
    \/ MaskDispatch
    \/ MaskCopy
    \/ MaskCopyEnd
    \/ \E d \in Dates : MaskMerge(d)
    \/ MaskMergeEnd
    \/ MaskRegisterClouds
    \/ MaskRegisterShadows
    \/ ImportStart
    \/ ImportDispatch
    \/ ImportCopy
    \/ ImportCopyEnd
    \/ ImportRegister

SpecSession == InitSession /\ [][NextSession]_vars

\* a map an earlier run has made in a mapset of its worker
OldMap == <<"old", 0>>

\* a run in a location where an earlier run over the first k scenes or
\* entries has ended before its worker mapsets were removed
InitFresh ==
    /\ (InitMask \/ InitImport) /\ shared = <<>> /\ NoParse /\ rasters = <<>> /\ Tested
    /\ NoExtract
    /\ pid_reuse = FALSE
    /\ pipeline = "mask" => opt.threshold = 0
    /\ pipeline = "import" =>
         ~opt.addons /\ opt.single_folders /\ ~opt.flag_c /\ ~opt.flag_i
    /\ \E k \in 0..MaxScenes :
         wmapset = [m \in MapsetNames |->
                      IF m[2] <= k /\ (m[1] = "clouds" <=> pipeline = "mask")
                        THEN NewMapset \cup {OldMap} ELSE NoMapset]

SpecFresh == InitFresh /\ [][NextSession]_vars

\* t.sentinel.import on its own
InitImportRun == Init /\ pipeline = "import"

NextImport ==
    \/ QueueWaitReturn
    \/ QueueWaitRaise
    \/ \E u \in Units : WorkerSetup(u)
    \/ \E u \in Units : ImportWorkerRun(u)
    \/ SessionInterference
    \/ DispatchEnd
    \/ Verify
    \/ ImportStart
    \/ ImportDispatch
    \/ ImportCopy
    \/ ImportCopyEnd
    \/ ImportRegister

SpecImport == InitImportRun /\ [][NextImport]_vars

\* t.sentinel.import up to the end of its process
NextExit == NextImport \/ Cleanup

SpecExit == InitImportRun /\ [][NextExit]_vars

\* the register loops of t.sentinel.import on their own, given one name
InitParse ==
    /\ pipeline = "import"
    /\ InitCommon
    /\ NoEarlierRun
    /\ rm_regions = {TmpRegion}
    /\ nscenes = 0
    /\ opt = [nprocs |-> 1, addons |-> FALSE, single_folders |-> TRUE,
              flag_c |-> FALSE, strds_clouds |-> FALSE, flag_i |-> FALSE,
              n_s2names |-> Unread, other_rasters |-> Unread, overwrite |-> Unread]
    /\ entries = <<>>
    /\ s2_scenes = <<>>
    /\ shared = <<>>
    /\ pc = "register"
    /\ pinput \in Inputs
    /\ pline = <<>>
    /\ rasters = <<>>
    /\ Tested
    /\ NoExtract
    /\ pid_reuse = FALSE

NextParse == RegisterBandLine \/ RegisterCloudLine

SpecParse == InitParse /\ [][NextParse]_vars

\* t.sentinel.mask from its first line: the input dataset is still to be read
InitScan ==
    /\ pipeline = "mask"
    /\ InitCommon
    /\ NoEarlierRun
    /\ rm_regions = {}
    /\ nscenes = 0
    /\ opt \in [nprocs : 1..MaxProcs, threshold : Thresholds,
                output_shadows : BOOLEAN, min_size_clouds : {Unread},
                min_size_shadows : {Unread}, overwrite : {Unread}]
    /\ entries = <<>>
    /\ s2_scenes = <<>>
    /\ \E n \in 0..MaxScenes :
         /\ rasters \in [1..n -> [date : Dates, bands : BandStates]]
         \* t.rast.list lists the rasters of the input ordered by start time
         /\ \A s \in 1..n : \A t \in 1..n :
              s <= t => DateLE(rasters[s].date, rasters[t].date)
    /\ pc = "scan"
    /\ shared = <<>>
    /\ NoParse
    /\ Tested
    /\ NoExtract
    /\ pid_reuse = FALSE

NextScan ==
    \/ MaskScan
    \/ QueueWaitReturn
    \/ QueueWaitRaise
    \/ \E u \in Units : WorkerSetup(u)
    \/ \E u \in Units : MaskWorkerRun(u)
    \/ SessionInterference
    \/ DispatchEnd
    \/ Verify
    \/ MaskDispatch
    \/ MaskCopy
    \/ MaskCopyEnd
    \/ \E d \in Dates : MaskMerge(d)
    \/ MaskMergeEnd
    \/ MaskRegisterClouds
    \/ MaskRegisterShadows

SpecScan == InitScan /\ [][NextScan]_vars

\* the maps an earlier run over the same scene has left in the current mapset
Leftover == [n \in {MapName("clouds", 1), MapName("B04", 1)} |-> "old"]

\* a run in a mapset an earlier run has written to
InitRerun ==
    /\ InitMask \/ InitImport
    /\ NoEarlierRun
    /\ nscenes >= 1
    /\ pipeline = "mask" => opt.threshold = 0
    /\ pipeline = "import" => ~opt.flag_i
    /\ shared = Leftover
    /\ NoParse
    /\ rasters = <<>>
    /\ Tested
    /\ NoExtract
    /\ pid_reuse = FALSE

SpecRerun == InitRerun /\ [][Next]_vars

\* scenes of the input dataset of one run of the patch loop
MergeScenes == 4

\* t.sentinel.mask from the end of the copy loop: every worker has ended,
\* every worker mapset is removed and the masks of the scenes are in the
\* current mapset; nothing from here on looks at a worker
InitMerge ==
    /\ pipeline = "mask"
    /\ nscenes = MergeScenes
    /\ idx = nscenes + 1
    /\ pc = "copy"
    /\ opt \in [nprocs : {1}, threshold : {0}, output_shadows : BOOLEAN,
                min_size_clouds : {0}, min_size_shadows : {0},
                overwrite : {Unread}]
    /\ entries = <<>>
    /\ \E dates \in [1..nscenes -> Dates] :
         /\ \A s \in 1..nscenes : \A u \in 1..nscenes :
              s <= u => DateLE(dates[s], dates[u])
         /\ s2_scenes = [s \in 1..nscenes |->
              [date |-> dates[s], pct |-> Unread,
               clouds |-> MapName("clouds", s),
               shadows |-> IF opt.output_shadows
                             THEN MapName("shadows", s) ELSE NoName]]
    /\ \E empty \in SUBSET (1..nscenes) :
         shared = [n \in {MapName(k, s) : k \in Kinds, s \in 1..nscenes} |->
                     IF n[1] = "clouds" /\ n[2] \in empty THEN "null" ELSE "copied"]
    /\ proc_list = <<>>
    /\ wstate = [u \in Units |-> "idle"]
    /\ step = [u \in Units |-> "none"]
    /\ wname = [u \in Units |-> NoName]
    /\ wmapset = [m \in MapsetNames |-> NoMapset]
    /\ wgisrc = [u \in Units |-> FALSE]
    /\ wpid = [u \in Units |-> 0]
    /\ cell_misc = {}
    /\ error = "none"
    /\ gisrc_mapset = "PERMANENT"
    /\ start_cur_mapset = "PERMANENT"
    /\ dates_todo = {}
    /\ cloudfree = {}
    /\ regfile = [bands |-> <<>>, clouds |-> <<>>, shadows |-> <<>>]
    /\ nprocs_final = 0
    /\ mapsetids = <<>>
    /\ maplist = <<>>
    /\ cloudlist = <<>>
    /\ rm_rasters = {DoubleName(s) : s \in 1..nscenes}
    /\ rm_regions = {}
    /\ regions = {}
    /\ NoParse
    /\ rasters = <<>>
    /\ Tested
    /\ NoExtract
    /\ pid_reuse = FALSE

NextMerge ==
    \/ Cleanup
    \/ MaskCopyEnd
    \/ \E d \in Dates : MaskMerge(d)
    \/ MaskMergeEnd
    \/ MaskRegisterClouds
    \/ MaskRegisterShadows

SpecMerge == InitMerge /\ [][NextMerge]_vars

\* t.sentinel.import from test_nprocs_memory() to the sizes of the queue
InitBudget ==
    /\ ImportConfig
    /\ NoEarlierRun
    /\ ~opt.flag_c /\ ~opt.flag_i
    /\ pc = "test"
    /\ \E m \in Memories :
         budget \in [requested : {m}, memory : {m}, nprocs_real : CpuCounts,
                     free_ram : FreeRams, warnings : {{}},
                     memory_per_proc : {Unread}]
    /\ shared = <<>>
    /\ NoParse
    /\ rasters = <<>>
    /\ NoExtract
    /\ pid_reuse = FALSE

\* the loop over the bands of the pattern on its own, given one pattern
InitPattern ==
    /\ pipeline = "import"
    /\ InitCommon
    /\ NoEarlierRun
    /\ rm_regions = {TmpRegion}
    /\ nscenes = 0
    /\ \E flag_i \in BOOLEAN :
         opt = [nprocs |-> 1, addons |-> FALSE, single_folders |-> TRUE,
                flag_c |-> FALSE, strds_clouds |-> FALSE, flag_i |-> flag_i,
                n_s2names |-> Unread, other_rasters |-> Unread, overwrite |-> Unread]
    /\ entries = <<>>
    /\ s2_scenes = <<>>
    /\ shared = <<>>
    /\ pc = "extract"
    /\ NoParse
    /\ rasters = <<>>
    /\ Tested
    /\ pattern \in PatternInputs
    /\ subsets = <<>>
    /\ layers = {}
    /\ pid_reuse = FALSE

NextPattern == ExtractBands

SpecPattern == InitPattern /\ [][NextPattern]_vars

\* band names of a product with its layers at 10 m, 20 m and 60 m: two bands
\* at their own resolution, one band at two resolutions, and the scene
\* classification
LayerBands ==
    {<<"B", "0", "4", "_", "1", "0", "m">>, <<"B", "0", "4", "_", "2", "0", "m">>,
     <<"B", "0", "5", "_", "2", "0", "m">>, <<"B", "0", "1", "_", "6", "0", "m">>,
     <<"S", "C", "L", "_", "2", "0", "m">>}

\* what i.sentinel.import puts before the band in the name of a raster: the
\* tile of the scene, with and without a "B" among its letters
TilePrefixes == {<<"T", "L", "C", "_">>, <<"T", "L", "B", "_">>}

\* one scene imported with a pattern that names its bands in full: the worker
\* has imported the layers the pattern names
InitResample ==
    /\ pipeline = "import"
    /\ InitCommon
    /\ NoEarlierRun
    /\ rm_regions = {TmpRegion}
    /\ nscenes = 0
    /\ \E flag_i \in BOOLEAN :
         opt = [nprocs |-> 1, addons |-> FALSE, single_folders |-> TRUE,
                flag_c |-> FALSE, strds_clouds |-> FALSE, flag_i |-> flag_i,
                n_s2names |-> Unread, other_rasters |-> Unread, overwrite |-> Unread]
    /\ entries = <<>>
    /\ s2_scenes = <<>>
    /\ shared = <<>>
    /\ pc = "resample"
    /\ NoParse
    /\ rasters = <<>>
    /\ Tested
    /\ pattern \in [shape : {"group", "plain"}, prefix : {<<>>}, suffix : {<<>>},
                     opts : UNION {[1..n -> LayerBands] : n \in 1..MaxOptions}]
    /\ subsets = <<>>
    /\ \E tile \in TilePrefixes :
         layers = {tile \o pattern.opts[i] : i \in DOMAIN pattern.opts}
    /\ pid_reuse = FALSE

NextResample == WorkerResample \/ ExtractBands

SpecResample == InitResample /\ [][NextResample]_vars

NextBudget == TestNprocsMemory \/ ImportStart

SpecBudget == InitBudget /\ [][NextBudget]_vars

(***************************************************************************)
(* The claims.                                                             *)
(***************************************************************************)
\* main() has passed the final queue.wait()
AfterWaitPcs == {"after_wait", "fatal", "copy", "merge", "register_clouds",
                 "register_shadows", "register", "done"}

Terminated(u) == wstate[u] \in {"ok", "failed"}

StepFailed == {u \in Units : step[u] = "failed"}

RegisteredNames(ds) == {regfile[ds][i].name : i \in DOMAIN regfile[ds]}

Datasets == {"bands", "clouds", "shadows"}

\* the scene s was looked at by the dispatch loop and found below the threshold
Skipped(s) ==
    /\ pipeline = "mask"
    /\ s \in 1..nscenes
    /\ opt.threshold > 0
    /\ s2_scenes[s].pct # Unread
    /\ s2_scenes[s].pct < opt.threshold

\* C1: in every reachable state of both pipelines the number of worker
\* processes that have been started and have not ended is at most the
\* configured limit: nprocs for the mask pipeline, min(number of scenes,
\* nprocs) for the import pipeline.
C1_ConcurrencyBound ==
    Cardinality(Active) <=
        (IF pipeline = "mask" THEN opt.nprocs ELSE Min(nscenes, opt.nprocs))

\* the pool is full while a scene is still to be submitted
C1_Witness ==
    /\ pc = "put_wait"
    /\ idx <= nscenes
    /\ Cardinality(Active) = opt.nprocs

\* C2: the mapset names handed to the workers of one run are pairwise
\* distinct, and so are the ids the import loop collects: two units never
\* work in the same mapset.
C2_DistinctNamespaces ==
    /\ \A u \in Dispatched : \A v \in Dispatched : u # v => wname[u] # wname[v]
    /\ \A i \in DOMAIN mapsetids : \A j \in DOMAIN mapsetids :
          i # j => mapsetids[i] # mapsetids[j]

\* two workers are running at the same time
C2_Witness == \E u \in Active : \E v \in Active : u # v

\* C3: once queue.wait() has returned every submitted unit has ended and no
\* worker is active; a started worker that has not ended is still in the
\* queue's list; nothing is in the shared mapset while a worker is active or
\* before the final wait() has returned.
C3_WaitBarrier ==
    /\ pc \in AfterWaitPcs =>
          (Active = {} /\ \A u \in Dispatched : Terminated(u))
    /\ Active \subseteq Range(proc_list)
    /\ DOMAIN shared # {} => (Active = {} /\ pc \in AfterWaitPcs \cup {"crashed"})

\* wait() has returned for two units and their maps are being copied
C3_Witness ==
    /\ pc = "copy"
    /\ Cardinality(Dispatched) >= 2
    /\ DOMAIN shared # {}

\* C4: when the patch loop of the mask pipeline runs, every worker has ended
\* and every scene has its cloud mask (and shadow mask, when enabled) in the
\* shared mapset; no patched map exists before the patch loop.
C4_MergeBarrier ==
    /\ (pipeline = "mask" /\ pc = "merge") =>
          /\ Active = {}
          /\ \A u \in Dispatched : Terminated(u)
          /\ \A s \in 1..nscenes : \A k \in Kinds :
                /\ Exists(MapName(k, s))
                /\ shared[MapName(k, s)] \in {"copied", "filtered", "null"}
    /\ (\E n \in DOMAIN shared : n[1] \in {"clouds_patched", "shadows_patched"}) =>
          pc \in {"merge", "register_clouds", "register_shadows", "done", "crashed"}

\* the patch loop is about to patch a date whose scenes were computed by workers
C4_Witness ==
    /\ pc = "merge"
    /\ \E d \in dates_todo : NeedsPatch(d) /\ DateScenes(d) \subseteq Dispatched

\* C5: when the MAPSET of the session differs from the one recorded before
\* dispatch, main() never gets past the check: it is waiting, at the check,
\* or has ended, nothing has been copied into the shared mapset and no
\* register file has been written.
C5_MapsetCheckFatal ==
    gisrc_mapset # start_cur_mapset =>
        /\ pc \in {"wait", "after_wait", "fatal", "crashed"}
        /\ DOMAIN shared = {}
        /\ \A ds \in Datasets : regfile[ds] = <<>>

\* the run ended with the fatal error after all its workers had succeeded
C5_Witness ==
    /\ pc = "fatal"
    /\ Cardinality(Dispatched) >= 2
    /\ \A u \in Dispatched : wstate[u] = "ok"

\* C6: when the external step of exactly one of several submitted units
\* fails, the run is not aborted, and when it has ended every other unit's
\* mapset has been reconciled.
C6_FailureIsolation ==
    (Cardinality(Dispatched) >= 2 /\ Cardinality(StepFailed) = 1) =>
        /\ pc # "crashed"
        /\ pc = "done" => \A u \in Dispatched : wmapset[wname[u]] = NoMapset

\* an artifact of the scene that unit u worked on
ArtifactOf(n, u) ==
    IF pipeline = "mask"
      THEN n \in {s2_scenes[u].clouds, s2_scenes[u].shadows}
      ELSE n[2] = entries[u].scene

\* C7: no register file holds a line for an artifact of a scene whose
\* external step failed.
C7_FailedSceneNotRegistered ==
    \A u \in StepFailed : \A ds \in Datasets :
        \A n \in RegisteredNames(ds) : ~ArtifactOf(n, u)

\* C8: when the mask pipeline has ended, for every date that two or more
\* scenes share, the cloud pointer of each of them is the patched map of that
\* date, that map exists, and the cloud register file has exactly one line
\* for it; the same for shadows when output_shadows is given.
C8_MergeCorrectness ==
    (pipeline = "mask" /\ pc = "done") =>
        \A d \in UniqueDates : Cardinality(DateScenes(d)) >= 2 =>
            \A k \in Kinds :
                /\ \A s \in DateScenes(d) : s2_scenes[s][k] = PatchName(k, d)
                /\ Exists(PatchName(k, d))
                /\ Cardinality({i \in DOMAIN regfile[k] :
                                   regfile[k][i].name = PatchName(k, d)}) = 1

\* a run with shadows has ended with a date shared by several computed scenes
C8_Witness ==
    /\ pipeline = "mask"
    /\ pc = "done"
    /\ opt.output_shadows
    /\ \E d \in UniqueDates :
          /\ Cardinality(DateScenes(d)) >= 2
          /\ \A s \in DateScenes(d) : wstate[s] = "ok"

\* the final pointers of the scenes
FinalPointers(k) == {s2_scenes[s][k] : s \in 1..nscenes}

\* C9: when the mask pipeline has ended, the register file of each kind
\* names every final pointer exactly once and nothing else: its length is
\* the number of distinct final pointers.
C9_OneEntryPerArtifact ==
    (pipeline = "mask" /\ pc = "done") =>
        \A k \in Kinds :
            /\ RegisteredNames(k) = FinalPointers(k)
            /\ Len(regfile[k]) = Cardinality(FinalPointers(k))

\* a run has ended in which a patch made two scenes share one register line
C9_Witness ==
    /\ pipeline = "mask"
    /\ pc = "done"
    /\ nscenes >= 2
    /\ Len(regfile.clouds) < nscenes

\* C10 as stated: a scene below the threshold is never dispatched and the
\* map its final cloud pointer names is empty.
C10_SkippedFinalNull ==
    \A s \in 1..nscenes : Skipped(s) =>
        /\ wstate[s] = "idle"
        /\ pc = "done" => shared[s2_scenes[s].clouds] = "null"

\* C10 as amended: a scene below the threshold is never dispatched, the
\* masks the copy loop writes for it are empty, and they are what its final
\* pointers name unless the scene shares its date with another scene.
C10_SkippedOwnMaskNull ==
    \A s \in 1..nscenes : Skipped(s) =>
        /\ wstate[s] = "idle"
        /\ \A k \in Kinds :
              /\ Exists(MapName(k, s)) => shared[MapName(k, s)] = "null"
              /\ pc \in {"merge", "register_clouds", "register_shadows", "done"}
                    => Exists(MapName(k, s))
              /\ (pc = "done" /\ Cardinality(DateScenes(s2_scenes[s].date)) = 1)
                    => s2_scenes[s][k] = MapName(k, s)

\* a run has ended in which one scene was skipped and another was computed
C10_Witness ==
    /\ pc = "done"
    /\ \E s \in 1..nscenes : Skipped(s)
    /\ \E s \in 1..nscenes : wstate[s] = "ok" /\ shared[MapName("clouds", s)] = "copied"

\* the dispatch loop of t.sentinel.mask has dealt with scene s
DispatchPassed(s) ==
    /\ pipeline = "mask"
    /\ s \in 1..nscenes
    /\ pc \in {"dispatch", "put_wait", "wait", "after_wait", "fatal", "crashed"}
          => s < idx

\* C11: a scene the dispatch loop has dealt with has a worker exactly when
\* the threshold is not above 0 or the scene's cloud percentage is at or
\* above the threshold.
C11_DispatchIffAtOrAbove ==
    \A s \in 1..nscenes : DispatchPassed(s) =>
        (s \in Dispatched <=>
            (opt.threshold <= 0 \/ s2_scenes[s].pct >= opt.threshold))

\* the worker of a scene whose cloud percentage equals the threshold has run
C11_Witness ==
    \E s \in 1..nscenes :
        /\ pipeline = "mask"
        /\ opt.threshold > 0
        /\ s2_scenes[s].pct = opt.threshold
        /\ wstate[s] = "ok"

\* the scenes that have exactly the date of scene s
SameDate(s) == {t \in 1..nscenes : s2_scenes[t].date = s2_scenes[s].date}

\* C12: when the mask pipeline has ended, the pointers of a scene name the
\* patched maps of its date exactly when another scene has exactly the same
\* date; otherwise they name the scene's own masks, which are in the shared
\* mapset as the copy loop wrote them.
C12_MergeIffSameDate ==
    (pipeline = "mask" /\ pc = "done") =>
        \A s \in 1..nscenes : \A k \in Kinds :
            IF Cardinality(SameDate(s)) >= 2
              THEN /\ s2_scenes[s][k] = PatchName(k, s2_scenes[s].date)
                   /\ s2_scenes[s][k] # MapName(k, s)
              ELSE /\ s2_scenes[s][k] = MapName(k, s)
                   /\ Exists(MapName(k, s))
                   /\ shared[MapName(k, s)] \in {"copied", "filtered", "null"}

\* a run has ended for two scenes of the same day taken at different times
C12_Witness ==
    /\ pipeline = "mask"
    /\ pc = "done"
    /\ \E s \in 1..nscenes : \E t \in 1..nscenes :
          /\ s2_scenes[s].date[1] = s2_scenes[t].date[1]
          /\ s2_scenes[s].date # s2_scenes[t].date
          /\ wstate[s] = "ok" /\ wstate[t] = "ok"

\* C14: no register file written by the import pipeline, of the band dataset
\* or of the cloud dataset, holds the name of a map twice.
C14_RegisterFilesDeduplicated ==
    pipeline = "import" =>
        \A ds \in {"bands", "clouds"} :
            \A i \in DOMAIN regfile[ds] : \A j \in DOMAIN regfile[ds] :
                i # j => regfile[ds][i].name # regfile[ds][j].name

\* C13: for a well-formed name prefix_YYYYMMDDTHHMMSS_band the line written
\* by either register loop carries the name and the timestamp
\* YYYY-MM-DD HH:MM:SS made of the characters of the name's second segment.
C13_StampFromName ==
    (pinput.shape = "ok" /\ pline # <<>>) =>
        /\ pline.status = "written"
        /\ pline.name = MakeName(pinput)
        /\ pline.stamp = pinput.year \o <<"-">> \o pinput.month \o <<"-">>
                           \o pinput.day \o <<" ">> \o pinput.hour \o <<":">>
                           \o pinput.minute \o <<":">> \o pinput.second

\* the line for S2_20210615T103021_B04 has been written
C13_Witness ==
    /\ pinput.shape = "ok"
    /\ MakeName(pinput) = <<"S", "2", "_", "2", "0", "2", "1", "0", "6", "1", "5", "T",
                            "1", "0", "3", "0", "2", "1", "_", "B", "0", "4">>
    /\ pline # <<>>
    /\ pline.stamp = <<"2", "0", "2", "1", "-", "0", "6", "-", "1", "5", " ",
                       "1", "0", ":", "3", "0", ":", "2", "1">>

\* C15: a name that does not follow the convention never gets a line
\* written: the register loop ends with a fatal error for it.
C15_MalformedIsFatal ==
    (pinput.shape \notin {"none", "ok"} /\ pline # <<>>) => pline.status = "fatal"

\* C16 as stated: once the input dataset has been read, a scene for which a
\* required band is missing has ended the run with the fatal error.
C16_MissingBandAlwaysFatal ==
    pc # "scan" =>
        \A i \in DOMAIN rasters :
            (\E b \in Bands : rasters[i].bands[b] = "absent") => pc = "fatal"

\* C16: once the input dataset has been read, a scene that has a raster
\* with data and a required band that is missing or NULL in the whole region
\* has ended the run with the fatal error before any unit was dispatched and
\* nothing is registered; a scene without any raster with data is left out
\* of s2_scenes, so that only complete scenes are counted for dispatch.
C16_IncompleteFatalOrLeftOut ==
    pc # "scan" =>
        /\ (\E i \in DOMAIN rasters :
               /\ \E b \in Bands : rasters[i].bands[b] = "data"
               /\ \E b \in Bands : rasters[i].bands[b] # "data")
             => /\ pc = "fatal"
                /\ error = "Not all needed bands are given"
                /\ Dispatched = {}
                /\ \A ds \in Datasets : regfile[ds] = <<>>
        /\ nscenes = Cardinality({i \in DOMAIN rasters :
                          \E b \in Bands : rasters[i].bands[b] = "data"})

\* the run has ended on a scene that lacks B12 next to one that was left out
C16_Witness ==
    /\ pc = "fatal"
    /\ error = "Not all needed bands are given"
    /\ \E i \in DOMAIN rasters :
         /\ rasters[i].bands["B12"] = "absent"
         /\ rasters[i].bands["B02"] = "data"
    /\ \E i \in DOMAIN rasters : \A b \in Bands : rasters[i].bands[b] # "data"

\* C17: when the run has ended, whatever way, no mapset made for a
\* dispatched unit and no private session file of a worker is left.
C17_WorkerContextsDeleted ==
    pc \in {"done", "fatal", "crashed"} =>
        \A u \in Dispatched : wmapset[wname[u]] = NoMapset /\ ~wgisrc[u]

\* the maps of the mapset the copy loop of t.sentinel.import is about to copy
NextCopied ==
    IF pipeline = "import" /\ pc = "copy" /\ idx <= Len(mapsetids)
      THEN SetToSeq({n \in wmapset[mapsetids[idx]] : IsVector(n)})
             \o SetToSeq({n \in wmapset[mapsetids[idx]] : IsRaster(n)})
      ELSE <<>>

\* the names the copy loops have gone through: the maps of the scenes before
\* idx (mask), the names collected in maplist and cloudlist (import)
Reconciled ==
    IF pipeline = "mask"
      THEN IF pc = "copy"
             THEN {MapName(k, s) : k \in Kinds, s \in 1..(idx - 1)}
             ELSE IF pc \in {"merge", "register_clouds", "register_shadows", "done"}
                    THEN {MapName(k, s) : k \in Kinds, s \in 1..nscenes}
                    ELSE {}
      ELSE Range(maplist) \cup Range(cloudlist)

C19_EmptyContextNotFailure ==
    pipeline = "import" =>
        \A u \in Units :
            (Terminated(u) /\ wmapset[wname[u]] \subseteq NewMapset)
                => wstate[u] # "failed"

\* C20 as stated: until wait() has returned, nothing inside the
\* orchestrator's mapset has been created, changed or deleted.
C20_MapsetUntouchedBeforeWait ==
    pc \in {"start", "dispatch", "put_wait", "wait"} =>
        shared = <<>> /\ cell_misc = {}

\* C20: the maps of the orchestrator's mapset change only in the copy loop
\* and after it, when every dispatched worker has ended; until then the only
\* thing a worker leaves in that mapset is the description.json of a raster
\* it has imported into its own mapset.
C20_MapsOnlyByReconciliation ==
    /\ shared # <<>> =>
         /\ \/ pc \in {"copy", "merge", "register_clouds", "register_shadows",
                      "register", "done"}
            \/ pc = "crashed" /\ error \in {"exists", "CalledModuleError"}
         /\ Active = {}
    /\ pc \in {"start", "dispatch", "put_wait", "wait"} =>
         cell_misc \subseteq UNION {wmapset[m] : m \in MapsetNames}

\* a worker has written a description.json while the orchestrator waits and
\* another worker still runs; the maps of the mapset are as they were
C20_Witness ==
    /\ pc \in {"put_wait", "wait"}
    /\ cell_misc # {}
    /\ Active # {}
    /\ shared = <<>>

\* C21: when t.sentinel.mask has run to its end, no worker failed or still
\* runs, every scene's final clouds pointer (and shadows pointer when
\* shadows are asked for) names a map of the current mapset that is in the
\* register file of its dataset, and no worker mapset is left.
C21_SuccessMeansAllTerminal ==
    (pipeline = "mask" /\ pc = "done") =>
        /\ error = "none"
        /\ \A u \in Dispatched : wstate[u] = "ok"
        /\ \A s \in 1..nscenes : \A k \in Kinds :
             /\ Exists(s2_scenes[s][k])
             /\ s2_scenes[s][k] \in RegisteredNames(k)
        /\ \A m \in MapsetNames : wmapset[m] = NoMapset

\* a finished run with shadows over two scenes, one computed and one
\* skipped for its cloud percentage
C21_Witness ==
    /\ pipeline = "mask"
    /\ pc = "done"
    /\ opt.output_shadows
    /\ nscenes = 2
    /\ \E s \in 1..nscenes : wstate[s] = "ok"
    /\ \E s \in 1..nscenes : Skipped(s)

\* the host could tell its number of CPUs and its free memory
HostKnown == budget.nprocs_real # Unavailable /\ budget.free_ram # Unavailable

\* C22: once test_nprocs_memory() has run on a host that tells its free
\* memory, options['memory'] is the free memory and the memory warning was
\* given when more than that was asked for, it is what was asked for and no
\* memory warning was given otherwise, and memory_per_proc is the nearest
\* integer to that value divided by the size of the queue.
C22_MemoryClamped ==
    (pipeline = "import" /\ pc # "test" /\ HostKnown) =>
        /\ budget.requested > budget.free_ram =>
             budget.memory = budget.free_ram /\ "memory" \in budget.warnings
        /\ budget.requested <= budget.free_ram =>
             budget.memory = budget.requested /\ "memory" \notin budget.warnings
        /\ pc = "dispatch" =>
             2 * Abs(budget.memory_per_proc * nprocs_final
                       - Min(budget.requested, budget.free_ram)) <= nprocs_final

\* 10000 MB asked for with 4000 MB free and two workers: 2000 MB each
C22_Witness ==
    /\ pc = "dispatch"
    /\ budget.requested = 10000
    /\ budget.free_ram = 4000
    /\ "memory" \in budget.warnings
    /\ nprocs_final = 2
    /\ budget.memory_per_proc = 2000

\* C23: when the sizes of the queue have been computed, memory_per_proc has
\* a value, the nearest integer to options['memory'] / max(nprocs_final, 1),
\* also when the directory of the scenes is empty.
C23_MemoryPerProcForEveryInput ==
    (pipeline = "import" /\ pc \notin {"test", "start"} /\ HostKnown) =>
        /\ budget.memory_per_proc # Unread
        /\ LET n == IF nprocs_final < 1 THEN 1 ELSE nprocs_final
           IN 2 * Abs(budget.memory_per_proc * n - budget.memory) <= n

\* C25: when the host cannot tell its number of CPUs or its free memory,
\* test_nprocs_memory() ends without an error, the memory asked for is kept
\* and no memory warning is given.
C25_IntrospectionFailureTolerated ==
    (pipeline = "import" /\ pc # "test" /\ ~HostKnown /\ budget.nprocs_real # Unread) =>
        /\ error \notin {"NotImplementedError", "NameError", "TypeError"}
        /\ budget.memory = budget.requested
        /\ "memory" \notin budget.warnings

\* the units there are to run: the scenes of the input dataset (mask), the
\* entries of the directory that are not skipped (import)
PendingUnits ==
    IF pipeline = "mask" THEN nscenes
    ELSE Cardinality({i \in 1..nscenes : ~SkippedEntry(i)})

\* the queue has been made
QueueMade ==
    \/ pipeline = "mask"
    \/ pipeline = "import" /\ pc \notin {"test", "start"} /\ error # "ZeroDivisionError"

\* C24 as stated: in both pipelines the queue has
\* min(nprocs, number of units to run) places.
C24_PoolIsMinOfAskedAndUnits ==
    QueueMade => QueueNprocs = Min(opt.nprocs, PendingUnits)

\* C24: the queue of the import has min(nprocs, number of directory
\* entries) places, the skipped entries counted as well (the copy under
\* grass-gis-addons: min(nprocs, number of names in s2names)); the queue of
\* the mask pipeline has nprocs places whatever the number of scenes; in
\* both, never more workers run than nprocs or than there are units.
C24_PoolSizes ==
    QueueMade =>
        /\ (pipeline = "import" /\ ~opt.addons) =>
              QueueNprocs = Min(opt.nprocs, nscenes)
        /\ (pipeline = "import" /\ opt.addons) =>
              QueueNprocs = Min(opt.nprocs, opt.n_s2names)
        /\ pipeline = "mask" => QueueNprocs = opt.nprocs
        /\ Cardinality(Active) <= Min(opt.nprocs, PendingUnits)

\* an import of one scene with nprocs = 2: the queue has one place and the
\* worker runs
C24_Witness ==
    /\ pipeline = "import"
    /\ ~opt.addons
    /\ opt.nprocs = 2
    /\ nscenes = 1
    /\ nprocs_final = 1
    /\ Active # {}

\* C26: a mask for which r.reclass.area has failed in the copy loop is a
\* null map of the current mapset from then on; the copy loop has gone on
\* past its scene, and when the run has ended the scene's pointer is in the
\* register file of its dataset.
C26_SizeFilterFailureIsClean ==
    pipeline = "mask" =>
        \A s \in 1..nscenes : \A k \in Kinds :
            MapName(k, s) \in cloudfree =>
                /\ Exists(MapName(k, s))
                /\ shared[MapName(k, s)] = "null"
                /\ error = "none"
                /\ pc = "copy" => idx > s
                /\ pc = "done" => s2_scenes[s][k] \in RegisteredNames(k)

\* the run has ended and r.reclass.area had failed for the clouds of a scene
\* whose worker had written them
C26_Witness ==
    /\ pipeline = "mask"
    /\ pc = "done"
    /\ \E s \in 1..nscenes :
         /\ MapName("clouds", s) \in cloudfree
         /\ wstate[s] = "ok"
         /\ opt.min_size_clouds # 0
         /\ shared[MapName("clouds", s)] = "null"

\* a minimum size of clouds is set and the copy loop has read it
MinSizeCloudsSet == pipeline = "mask" /\ opt.min_size_clouds \notin {0, Unread}

\* C27 as stated: with a minimum size set, the patched clouds of a date have
\* gone through the size filter, they are not the plain r.patch of the
\* masks of the date.
C27_FilterAfterMerge ==
    MinSizeCloudsSet =>
        \A d \in UniqueDates :
            Exists(PatchName("clouds", d)) => shared[PatchName("clouds", d)] # "patched"

\* C27: with a minimum size set, the size filter has run on the mask of
\* every scene of a date before the masks of the date are patched: each of
\* them is the output of r.reclass.area or null; the patched map is the
\* plain r.patch of them (null when all of them are null) and is not
\* filtered again.  (The dates meant are those with more than one scene
\* whose patch name no other such date of the same day shares.)
C27_FilterBeforeMerge ==
    MinSizeCloudsSet =>
        \A d \in UniqueDates :
            (/\ Exists(PatchName("clouds", d))
             /\ Cardinality(DateScenes(d)) > 1
             /\ \A e \in UniqueDates \ {d} :
                  e[1] = d[1] => Cardinality(DateScenes(e)) = 1) =>
                /\ \A s \in DateScenes(d) :
                     /\ Exists(MapName("clouds", s))
                     /\ shared[MapName("clouds", s)] \in {"filtered", "null"}
                /\ shared[PatchName("clouds", d)] =
                     IF \A s \in DateScenes(d) : shared[MapName("clouds", s)] = "null"
                       THEN "null" ELSE "patched"

\* the clouds of two scenes of one date, one of them filtered, are patched
C27_Witness ==
    /\ MinSizeCloudsSet
    /\ pc = "done"
    /\ \E d \in UniqueDates :
         /\ Exists(PatchName("clouds", d))
         /\ shared[PatchName("clouds", d)] = "patched"
         /\ \E s \in DateScenes(d) : shared[MapName("clouds", s)] = "filtered"

\* the names of a list in the order of their first occurrence
RECURSIVE FirstOccurrences(_)
FirstOccurrences(seq) ==
    IF seq = <<>> THEN <<>>
    ELSE LET front == FirstOccurrences(SubSeq(seq, 1, Len(seq) - 1))
             last == seq[Len(seq)]
         IN IF last \in Range(front) THEN front ELSE Append(front, last)

\* the names of the lines of a register file, in the order of the lines
RegisteredSeq(ds) == [i \in DOMAIN regfile[ds] |-> regfile[ds][i].name]

\* C28 as stated: the lines of the band register file are in the order in
\* which the names were put into maplist, each name at its first occurrence.
C28_BandsInInsertionOrder ==
    (pipeline = "import" /\ pc = "done") =>
        RegisteredSeq("bands") = FirstOccurrences(maplist)

\* C28: the band register file has one line for every name of maplist and
\* no name twice, in an order the program does not fix; the lines of the
\* cloud register file are the names of cloudlist in the order of the list.
C28_BandsOnceInSomeOrder ==
    (pipeline = "import" /\ pc = "done") =>
        /\ RegisteredNames("bands") = Range(maplist)
        /\ Len(regfile.bands) = Cardinality(Range(maplist))
        /\ opt.flag_c => RegisteredSeq("clouds") = cloudlist

\* the band register file lists two rasters against the order of maplist
C28_Witness ==
    /\ pipeline = "import"
    /\ pc = "done"
    /\ Len(maplist) = 2
    /\ RegisteredSeq("bands") = <<maplist[2], maplist[1]>>
    /\ maplist[1] # maplist[2]

\* the type the cloud dataset is created and registered with
CloudDatasetKind == IF opt.strds_clouds THEN "raster" ELSE "vector"

ExpandedBands ==
    [i \in DOMAIN pattern.opts |-> pattern.prefix \o pattern.opts[i] \o pattern.suffix]

\* a band name with every "20" and every "60" turned into "10"
At10m(band) ==
    Replace(Replace(band, <<"2", "0">>, <<"1", "0">>), <<"6", "0">>, <<"1", "0">>)

\* the names the datasets of the bands get: the band names, with -i at 10 m
WantedSubsets ==
    [i \in DOMAIN ExpandedBands |->
       IF opt.flag_i THEN At10m(ExpandedBands[i]) ELSE ExpandedBands[i]]

\* the first place of WantedSubsets that repeats an earlier one, 0 if none
FirstRepeat ==
    LET again == {i \in DOMAIN WantedSubsets :
                    \E j \in 1..(i - 1) : WantedSubsets[j] = WantedSubsets[i]}
    IN IF again = {} THEN 0 ELSE CHOOSE i \in again : \A j \in again : i <= j

\* C30 as stated: a pattern prefix(opt1|opt2|...)suffix, or the band names in
\* full joined by "|", gives one dataset <strds>_<band> for each band name
\* prefix+opt_i+suffix, in option order.
C30_OneSubsetPerBand ==
    (pc \in {"done", "crashed"} /\ pattern # NoPattern
       /\ pattern.shape \in {"group", "plain"})
      => subsets = ExpandedBands

\* C30: the pattern is expanded into the band names prefix+opt_i+suffix in
\* option order (a pattern without brackets is split on "|"), and one dataset
\* is extracted per band in that order, named after the band; with -i every
\* "20" and "60" of the band name is turned into "10" before the name and the
\* filter are built.  When two bands give the same name, the second
\* extraction finds its output taken: without overwrite the run ends there
\* with the earlier datasets made, with overwrite every band is extracted.
\* A bracket that is opened and not closed ends the run before any dataset.
C30_SubsetsFollowPattern ==
    (pc \in {"done", "crashed"} /\ pattern # NoPattern) =>
      /\ pattern.shape = "unclosed" =>
           pc = "crashed" /\ error = "IndexError" /\ subsets = <<>>
      /\ pattern.shape \in {"group", "plain"} =>
           /\ ~opt.flag_i => \A i \in DOMAIN subsets : subsets[i] = ExpandedBands[i]
           /\ pc = "done" =>
                /\ subsets = WantedSubsets
                /\ FirstRepeat # 0 => opt.overwrite = 1
           /\ pc = "crashed" =>
                /\ error = "exists"
                /\ FirstRepeat # 0
                /\ opt.overwrite = 0
                /\ subsets = SubSeq(WantedSubsets, 1, FirstRepeat - 1)

\* two bands of a bracket pattern were extracted under -i, the second under
\* a name that is not the band name of the pattern
C30_Witness ==
    /\ pc = "done"
    /\ pattern # NoPattern
    /\ pattern.shape = "group"
    /\ opt.flag_i
    /\ Len(subsets) = 2
    /\ subsets[1] = ExpandedBands[1]
    /\ subsets[2] # ExpandedBands[2]
    /\ subsets[2] = At10m(ExpandedBands[2])

(***************************************************************************)
(* C31                                                                     *)
(***************************************************************************)
\* the units the queue holds are all different
NoUnitTwice(list) ==
    \A i \in 1..Len(list) : \A j \in 1..Len(list) : i # j => list[i] # list[j]

Running == {u \in Units : wstate[u] = "setup"}

MergedDates == {d \in UniqueDates : NeedsPatch(d)}

\* the register file of one kind has a line of date d under the patch name
HasMergedLine(kind, d) ==
    \E i \in 1..Len(regfile[kind]) :
        /\ regfile[kind][i].name = PatchName(kind, d)
        /\ regfile[kind][i].date = d

\* C33 as stated: two dates that are both patched in one run have patch
\* names of their own, so no r.patch meets or replaces the output of another
\* date and every patched date has its line in the register files.
C33_MergedNamesDistinct ==
    pipeline = "mask" =>
        \A d \in MergedDates : \A e \in MergedDates :
            d # e =>
                /\ pc \in {"merge", "register_clouds", "register_shadows", "done"}
                     => PatchName("clouds", d) # PatchName("clouds", e)
                /\ error # "exists"
                /\ pc = "done" => \A k \in Kinds : HasMergedLine(k, d)

(***************************************************************************)
(* C34                                                                     *)
(***************************************************************************)
\* the names written to the register files of the run
AllRegistered == UNION {RegisteredNames(k) : k \in Kinds}

\* the register files are written and nothing has ended the run early
MaskRunEnded == pipeline = "mask" /\ pc \in {"done", "exited"} /\ error = "none"

\* C34: at the end of t.sentinel.mask no name of the register files is in
\* rm_rasters, and the masks of every scene of a patched date are; cleanup()
\* then leaves every registered map in the mapset and removes those masks.
C34_RegisteredNeverRemoved ==
    MaskRunEnded =>
        /\ AllRegistered \cap rm_rasters = {}
        /\ \A d \in MergedDates : PatchInputs(d) \subseteq rm_rasters
        /\ pc = "exited" =>
             /\ \A n \in AllRegistered : Exists(n)
             /\ \A d \in MergedDates : \A n \in PatchInputs(d) : ~Exists(n)

\* cleanup() has run after a run that patched the masks of a date: the patch
\* is registered and there, the masks of its scenes are gone
C34_Witness ==
    /\ MaskRunEnded
    /\ pc = "exited"
    /\ \E d \in MergedDates :
         /\ PatchName("clouds", d) \in RegisteredNames("clouds")
         /\ Exists(PatchName("clouds", d))
         /\ PatchInputs(d) \subseteq rm_rasters
         /\ \A n \in PatchInputs(d) : ~Exists(n)
    /\ \E s \in 1..nscenes :
         /\ ~NeedsPatch(s2_scenes[s].date)
         /\ Exists(MapName("clouds", s))

(***************************************************************************)
(* C37                                                                     *)
(***************************************************************************)
\* C37 as stated: once t.sentinel.import has exited, however the run ended,
\* the region saved before dispatch is no longer in the mapset.
C37_TmpRegionRemoved ==
    (pipeline = "import" /\ pc = "exited") => TmpRegion \notin regions

(***************************************************************************)
(* C35                                                                     *)
(***************************************************************************)
\* the mapset ids of the units that were put on the queue
DispatchedIds == {wname[u] : u \in Dispatched}

\* C35 as stated: the mapset ids the copy loop of t.sentinel.import goes
\* through are the mapset ids of the units that were put on the queue, also
\* when an entry of the directory was skipped.
C35_CopyLoopReadsDispatchedOnly ==
    (pipeline = "import" /\ pc \in {"copy", "register", "done"}) =>
        Range(mapsetids) = DispatchedIds

(***************************************************************************)
(* C36                                                                     *)
(***************************************************************************)
\* the workers that have made their mapset and have not yet run their tool
AtStep == {u \in Units : wstate[u] = "setup"}

\* C36: every unit runs in a worker mapset of its own that is made anew: when
\* the worker comes to its processing step the mapset holds nothing but what
\* g.mapset -c has made, also when an earlier run has left a mapset of that
\* name, and no map of the earlier run is in the mapset of a unit that has
\* run.
C36_FreshWorkerContext ==
    /\ \A u \in AtStep : wmapset[wname[u]] = NewMapset
    /\ \A u \in Dispatched : \A v \in Dispatched : u # v => wname[u] # wname[v]
    /\ \A u \in Units : wstate[u] \in {"setup", "ok", "failed"} =>
         OldMap \notin wmapset[wname[u]]

\* a worker is at its processing step in a mapset that the earlier run had
\* left, while the mapset of a later scene still holds the old map
C36_Witness ==
    \E u \in AtStep : \E v \in Units :
        /\ v > u
        /\ wstate[v] = "idle"
        /\ OldMap \in wmapset[IF pipeline = "mask" THEN NewMapsetName(v) ELSE MapsetId(v)]
        /\ wmapset[wname[u]] = NewMapset

(***************************************************************************)
(* C38                                                                     *)
(***************************************************************************)
\* the places of the pattern whose band name holds "20" or "60"
Renamed ==
    {i \in DOMAIN ExpandedBands :
       \/ Contains(ExpandedBands[i], <<"2", "0">>)
       \/ Contains(ExpandedBands[i], <<"6", "0">>)}

\* t.rast.extract where="name like '%<band>%'": the layers a dataset takes
Selected(band) == {n \in layers : Contains(n, band)}

\* C38 as stated: with -i, the dataset of a band whose name holds "20" or
\* "60" is named and filtered with the name at 10 m, and that name is the
\* name of the resampled layer of the band that was registered.
C38_FilterMatchesResampled ==
    (pc = "done" /\ opt.flag_i /\ layers # {}) =>
        \A i \in Renamed :
            /\ subsets[i] = At10m(ExpandedBands[i])
            /\ Selected(subsets[i]) # {}

(***************************************************************************)
(* C39                                                                     *)
(***************************************************************************)
\* the copy loop of t.sentinel.mask has gone through every scene
AfterCopyLoop ==
    pipeline = "mask" /\ pc \in {"merge", "register_clouds", "register_shadows", "done"}

\* C39: when the copy loop of t.sentinel.mask is over, the current mapset
\* holds for every scene a cloud mask under the scene's cloud name, and a
\* shadow mask when shadows are asked for: copied, filtered by size, or made
\* with null() when the worker mapset does not hold it, which is the case of
\* every scene below the threshold.
C39_EverySceneHasMasks ==
    AfterCopyLoop =>
        \A s \in 1..nscenes : \A k \in Kinds :
            /\ Exists(MapName(k, s))
            /\ shared[MapName(k, s)] \in {"copied", "filtered", "null"}
            /\ wstate[s] = "idle" => shared[MapName(k, s)] = "null"

\* the copy loop is over with one scene that was below the threshold and has
\* its masks as null(), and one scene whose cloud mask was copied while its
\* worker had made no shadow mask
C39_Witness ==
    /\ AfterCopyLoop
    /\ opt.output_shadows
    /\ \E s \in 1..nscenes : \E u \in 1..nscenes :
         /\ wstate[s] = "idle"
         /\ shared[MapName("clouds", s)] = "null"
         /\ shared[MapName("shadows", s)] = "null"
         /\ wstate[u] = "ok"
         /\ shared[MapName("clouds", u)] = "copied"
         /\ shared[MapName("shadows", u)] = "null"

====
